---- MODULE Spec2Model ----
(***************************************************************************)
(* Model of services/ticker_evaluation.py and of the flow of app.py that    *)
(* uses it: the ticker resolver                                            *)
(* (find_ticker), the EU revenue estimator (calculate_eu_revenue), the     *)
(* merger threshold evaluator (analyze_merger_eumr_compliance) and their   *)
(* data provider (yfinance / yahoo_fin / companies_data.json), which is    *)
(* external and therefore drawn from bounded sets of responses.            *)
(*                                                                         *)
(* Amounts of money are Python floats, computed as the code computes them  *)
(* (each operation rounded to a double); they are written in units of      *)
(* 1,000,000, so the source's 5_000_000_000 is Num(5000) here.  Text is a  *)
(* sequence of code points so that lower(), strip(), replace() and `in`    *)
(* are computed, not assumed.                                              *)
(***************************************************************************)
EXTENDS Integers, Sequences, FiniteSets, TLC

VARIABLES pc, call, ret, io, report, app

vars == <<pc, call, ret, io, report, app>>

(***************************************************************************)
(* Bounds of the model.                                                    *)
(***************************************************************************)
\* number of fiscal-year columns a non-empty financial statement may have
MaxColumns == 2

\* number of tickers in the three index lists together
MaxUniverse == 2

(***************************************************************************)
(* Natural numbers of any size (TLC's integers have 32 bits): a number is  *)
(* the sequence of its digits in base 2^15, lowest first, without high     *)
(* zeros; <<>> is 0.                                                       *)
(***************************************************************************)
Bits == 15

Base == 2 ^ Bits

Limb(a, i) == IF i <= Len(a) THEN a[i] ELSE 0

RECURSIVE Trim(_)
\* a without its high zeros
Trim(a) ==
    IF a # <<>> /\ a[Len(a)] = 0 THEN Trim(SubSeq(a, 1, Len(a) - 1)) ELSE a

\* the number i, 0 <= i < 2^31
Big(i) == Trim(<<i % Base, (i \div Base) % Base, i \div (Base * Base)>>)

RECURSIVE Compare(_, _, _)
\* the sign of a - b for two numbers of the same length, from digit i down
Compare(a, b, i) ==
    IF i = 0 THEN 0
    ELSE IF a[i] > b[i] THEN 1
    ELSE IF a[i] < b[i] THEN -1
    ELSE Compare(a, b, i - 1)

\* the sign of a - b
Cmp(a, b) ==
    IF Len(a) > Len(b) THEN 1
    ELSE IF Len(a) < Len(b) THEN -1
    ELSE Compare(a, b, Len(a))

RECURSIVE AddFrom(_, _, _, _)
AddFrom(a, b, i, carry) ==
    IF i > Len(a) /\ i > Len(b) THEN (IF carry = 0 THEN <<>> ELSE <<carry>>)
    ELSE <<(Limb(a, i) + Limb(b, i) + carry) % Base>>
           \o AddFrom(a, b, i + 1, (Limb(a, i) + Limb(b, i) + carry) \div Base)

Add(a, b) == AddFrom(a, b, 1, 0)

RECURSIVE SubFrom(_, _, _, _)
SubFrom(a, b, i, borrow) ==
    IF i > Len(a) THEN <<>>
    ELSE <<(a[i] - Limb(b, i) - borrow + Base) % Base>>
           \o SubFrom(a, b, i + 1,
                      IF a[i] - Limb(b, i) - borrow < 0 THEN 1 ELSE 0)

\* a - b for a >= b
Sub(a, b) == Trim(SubFrom(a, b, 1, 0))

RECURSIVE TimesFrom(_, _, _, _)
TimesFrom(a, k, i, carry) ==
    IF i > Len(a) THEN (IF carry = 0 THEN <<>> ELSE <<carry>>)
    ELSE <<(a[i] * k + carry) % Base>>
           \o TimesFrom(a, k, i + 1, (a[i] * k + carry) \div Base)

\* a * k for one digit k
Times(a, k) == IF k = 0 THEN <<>> ELSE TimesFrom(a, k, 1, 0)

\* a * Base
Up(a) == IF a = <<>> THEN <<>> ELSE <<0>> \o a

RECURSIVE MulFrom(_, _, _)
\* a times the digits of b from position j upwards
MulFrom(a, b, j) ==
    IF j > Len(b) THEN <<>>
    ELSE Add(Times(a, b[j]), Up(MulFrom(a, b, j + 1)))

Mul(a, b) == MulFrom(a, b, 1)

RECURSIVE QuotFrom(_, _, _, _)
\* the digits of a \div k from digit i down, rem carried from above
QuotFrom(a, k, i, rem) ==
    IF i = 0 THEN <<>>
    ELSE QuotFrom(a, k, i - 1, (rem * Base + a[i]) % k)
           \o <<(rem * Base + a[i]) \div k>>

\* a \div k for one digit k > 0
Quot(a, k) == Trim(QuotFrom(a, k, Len(a), 0))

RECURSIVE RemFrom(_, _, _, _)
RemFrom(a, k, i, rem) ==
    IF i = 0 THEN rem ELSE RemFrom(a, k, i - 1, (rem * Base + a[i]) % k)

\* a % k for one digit k > 0
Rem(a, k) == RemFrom(a, k, Len(a), 0)

\* a * 2^k
Shl(a, k) ==
    IF a = <<>> \/ k = 0 THEN a
    ELSE [i \in 1..(k \div Bits) |-> 0] \o Times(a, 2 ^ (k % Bits))

\* a \div 2^k
Shr(a, k) ==
    IF k = 0 THEN a
    ELSE IF k \div Bits >= Len(a) THEN <<>>
    ELSE Quot(SubSeq(a, (k \div Bits) + 1, Len(a)), 2 ^ (k % Bits))

\* a % 2^k
Low(a, k) ==
    IF k \div Bits >= Len(a) THEN a
    ELSE Trim(SubSeq(a, 1, k \div Bits)
                \o <<a[(k \div Bits) + 1] % (2 ^ (k % Bits))>>)

RECURSIVE Width(_)
\* the number of bits of one digit
Width(d) == IF d = 0 THEN 0 ELSE 1 + Width(d \div 2)

\* the number of bits of a
BitLen(a) == IF a = <<>> THEN 0 ELSE Bits * (Len(a) - 1) + Width(a[Len(a)])

RECURSIVE Twos(_)
\* the number of low zero bits of a digit d > 0
Twos(d) == IF d % 2 = 1 THEN 0 ELSE 1 + Twos(d \div 2)

RECURSIVE LowZeros(_, _)
\* the number of low zero bits of a > 0, counted from digit i
LowZeros(a, i) == IF a[i] = 0 THEN Bits + LowZeros(a, i + 1) ELSE Twos(a[i])

AtLeastOne(k) == IF k = 0 THEN 1 ELSE k

\* a lower bound of r \div b from their leading digits (r >= b, r < b * Base),
\* at least 1; it is close when the leading digit of b is large
Estimate(r, b) ==
    AtLeastOne((Limb(r, Len(b) + 1) * Base + r[Len(b)]) \div (b[Len(b)] + 1))

RECURSIVE Reduce(_, _, _)
\* r with k times b taken out of it, then the rest
Take(r, b, d, k) == Reduce(Sub(r, Times(b, k)), b, d + k)

\* r \div b and r % b for r < b * Base, d already taken out of r
Reduce(r, b, d) ==
    IF Cmp(r, b) < 0 THEN [d |-> d, r |-> r] ELSE Take(r, b, d, Estimate(r, b))

\* the digit found put above the digits of the rest of the division
Above(rest, d) == [q |-> rest.q \o <<d>>, r |-> rest.r]

RECURSIVE DivFrom(_, _, _, _)
\* digit i of the quotient (step: that digit and what is left), then the
\* digits below it
DivDigit(a, b, i, step) == Above(DivFrom(a, b, i - 1, step.r), step.d)

\* long division of a by b from digit i down, rem carried from above
DivFrom(a, b, i, rem) ==
    IF i = 0 THEN [q |-> <<>>, r |-> rem]
    ELSE DivDigit(a, b, i, Reduce(Trim(<<a[i]>> \o rem), b, 0))

\* the quotient without its high zeros
Trimmed(division) == [q |-> Trim(division.q), r |-> division.r]

\* a \div b and a % b for b > 0
DivMod(a, b) == Trimmed(DivFrom(a, b, Len(a), <<>>))

(***************************************************************************)
(* Numbers: Python floats (IEEE 754 doubles), the value (-1)^neg * m * 2^e *)
(* with m odd (or m = 0, e = 0), and NaN, which propagates.  Every         *)
(* operation is the exact result rounded to 53 bits, ties to even.  The    *)
(* exponent is not bounded (no overflow to inf, no subnormals): amounts    *)
(* of money are far from both ends.  An int is the float of the same       *)
(* value (exact below 2^53).                                               *)
(***************************************************************************)
Precision == 53

\* not a number: a record that is the value of no number (zero has e = 0)
NaN == [neg |-> FALSE, m |-> <<>>, e |-> 1]

IsNaN(a) == a = NaN

\* m * 2^e with m odd, z its number of low zero bits before
Odd(neg, m, e, z) == [neg |-> neg, m |-> Shr(m, z), e |-> e + z]

Canon(neg, m, e) ==
    IF m = <<>> THEN [neg |-> neg, m |-> <<>>, e |-> 0]
    ELSE Odd(neg, m, e, LowZeros(m, 1))

\* q * 2^e, one more when the part cut off (c: its sign against one half;
\* sticky: something more below it) is above one half, or is one half and q
\* is odd
RoundTo(neg, q, e, c, sticky) ==
    Canon(neg,
          IF c > 0 \/ (c = 0 /\ (sticky \/ q[1] % 2 = 1)) THEN Add(q, <<1>>)
          ELSE q,
          e)

\* m * 2^e with its t lowest bits rounded away
RoundAt(neg, m, e, sticky, t) ==
    RoundTo(neg, Shr(m, t), e + t, Cmp(Low(m, t), Shl(<<1>>, t - 1)), sticky)

\* the float nearest m * 2^e (plus a little, less than 2^e, when sticky)
Round(neg, m, e, sticky) ==
    IF BitLen(m) <= Precision THEN Canon(neg, m, e)
    ELSE RoundAt(neg, m, e, sticky, BitLen(m) - Precision)

\* the float nearest (n / d) * 2^e, from the quotient and the remainder of
\* a division that gives two bits more than the precision
RoundDiv(neg, division, e) == Round(neg, division.q, e, division.r # <<>>)

\* the float nearest (n / d) * 2^e, for d > 0: n is shifted by k bits first,
\* and both by s bits, which fills the leading digit of d
Ratio(neg, n, d, e, k, s) ==
    RoundDiv(neg, DivMod(Shl(n, k + s), Shl(d, s)), e - k)

\* the bits to shift n by for n \div d to have two bits more than the
\* precision
Gap(n, d) ==
    IF Precision + 2 + BitLen(d) > BitLen(n)
    THEN Precision + 2 + BitLen(d) - BitLen(n)
    ELSE 0

Nearest(neg, n, d, e) ==
    IF n = <<>> THEN Canon(neg, <<>>, 0)
    ELSE IF d = <<1>> THEN Round(neg, n, e, FALSE)
    ELSE Ratio(neg, n, d, e, Gap(n, d), Bits * Len(d) - BitLen(d))

\* the float of the literal i / j (j > 0): 0.30 is Float(3, 10)
Float(i, j) ==
    IF i < 0 THEN Nearest(TRUE, Big(-i), Big(j), 0)
    ELSE Nearest(FALSE, Big(i), Big(j), 0)

\* the amount of i / j million (j > 0)
Frac(i, j) ==
    IF i < 0 THEN Nearest(TRUE, Times(Times(Big(-i), 1000), 1000), Big(j), 0)
    ELSE Nearest(FALSE, Times(Times(Big(i), 1000), 1000), Big(j), 0)

\* the amount of i million
Num(i) == Frac(i, 1)

\* the sign of |a| - |b|
CmpMag(a, b) ==
    IF a.e <= b.e THEN Cmp(a.m, Shl(b.m, b.e - a.e))
    ELSE Cmp(Shl(a.m, a.e - b.e), b.m)

\* |a| + |b| and |a| - |b| (for |a| >= |b|) in units of 2^e, e the lower
\* exponent
SumMag(a, b) ==
    IF a.e <= b.e THEN Add(a.m, Shl(b.m, b.e - a.e))
    ELSE Add(Shl(a.m, a.e - b.e), b.m)

DiffMag(a, b) ==
    IF a.e <= b.e THEN Sub(a.m, Shl(b.m, b.e - a.e))
    ELSE Sub(Shl(a.m, a.e - b.e), b.m)

LowerExponent(a, b) == IF a.e <= b.e THEN a.e ELSE b.e

FAdd(a, b) ==
    IF IsNaN(a) \/ IsNaN(b) THEN NaN
    ELSE IF a.neg = b.neg
    THEN Round(a.neg, SumMag(a, b), LowerExponent(a, b), FALSE)
    ELSE IF CmpMag(a, b) = 0 THEN Canon(FALSE, <<>>, 0)
    ELSE IF CmpMag(a, b) > 0
    THEN Round(a.neg, DiffMag(a, b), LowerExponent(a, b), FALSE)
    ELSE Round(b.neg, DiffMag(b, a), LowerExponent(a, b), FALSE)

FMul(a, b) ==
    IF IsNaN(a) \/ IsNaN(b) THEN NaN
    ELSE Round(a.neg # b.neg, Mul(a.m, b.m), a.e + b.e, FALSE)

\* a / b for a b other than zero
FDiv(a, b) ==
    IF IsNaN(a) \/ IsNaN(b) THEN NaN
    ELSE Nearest(a.neg # b.neg, a.m, b.m, a.e - b.e)

\* a > b; every comparison with NaN is false
FGt(a, b) ==
    /\ ~IsNaN(a) /\ ~IsNaN(b)
    /\ IF a.neg # b.neg THEN b.neg /\ (a.m # <<>> \/ b.m # <<>>)
       ELSE IF a.neg THEN CmpMag(a, b) < 0
       ELSE CmpMag(a, b) > 0

FEq(a, b) ==
    /\ ~IsNaN(a) /\ ~IsNaN(b)
    /\ \/ a.m = <<>> /\ b.m = <<>>
       \/ a.neg = b.neg /\ a.m = b.m /\ a.e = b.e

(***************************************************************************)
(* Python helpers.                                                         *)
(***************************************************************************)
\* dict.get(key, default) / Series.get(key, default)
Get(dict, key, default) == IF key \in DOMAIN dict THEN dict[key] ELSE default

Ok(v) == [kind |-> "ok", value |-> v]

Raise(exc, msg) == [kind |-> "raise", exc |-> exc, msg |-> msg]

PyNone == [kind |-> "None"]

(***************************************************************************)
(* Program constants (units of 1,000,000).                                 *)
(***************************************************************************)
PRIMARY_WORLDWIDE == 5000

PRIMARY_EU == 250

ALTERNATIVE_WORLDWIDE == 2500

ALTERNATIVE_EU == 100

eur_usd_rate == Float(11, 10)

eu_regions == <<"Europe", "EU", "EMEA">>

(***************************************************************************)
(* get_company_financials: p is what the provider answers for the ticker:  *)
(* p.info, p.financials, p.geo, each [kind |-> "raise"] or a value.        *)
(***************************************************************************)
\* DataFrame.empty: no column, or no row
FrameEmpty(frame) == Len(frame) = 0 \/ DOMAIN frame[1] = {}

\* the same without the financials.empty check: a statement with no column
\* fails on iloc[:, 0], one with a column and no row goes on with the defaults
get_company_financials_unchecked(ticker, p) ==
    IF p.info.kind = "raise"
    THEN Raise("Exception", <<"info unavailable for ", ticker>>)
    ELSE IF p.financials.kind = "raise"
    THEN Raise("Exception", <<"financials unavailable for ", ticker>>)
    ELSE IF Len(p.financials.frame) = 0
    THEN Raise("IndexError", <<"single positional indexer is out-of-bounds">>)
    ELSE Ok([name |-> Get(p.info.dict, "longName", ticker),
             ticker |-> ticker,
             total_revenue |-> Get(p.financials.frame[1], "Total Revenue", Num(0)),
             market_cap |-> Get(p.info.dict, "marketCap", Num(0)),
             geo_revenue |-> IF p.geo.kind = "raise" THEN PyNone ELSE p.geo,
             currency |-> Get(p.info.dict, "currency", "USD")])

\* the same without the try around get_geographical_revenue
get_company_financials_geo_raises(ticker, p) ==
    IF p.info.kind = "raise"
    THEN Raise("Exception", <<"info unavailable for ", ticker>>)
    ELSE IF p.financials.kind = "raise"
    THEN Raise("Exception", <<"financials unavailable for ", ticker>>)
    ELSE IF FrameEmpty(p.financials.frame)
    THEN Raise("ValueError", <<"Could not fetch financial data for ", ticker>>)
    ELSE IF p.geo.kind = "raise"
    THEN Raise("Exception", <<"geographical revenue unavailable for ", ticker>>)
    ELSE Ok([name |-> Get(p.info.dict, "longName", ticker),
             ticker |-> ticker,
             total_revenue |-> Get(p.financials.frame[1], "Total Revenue", Num(0)),
             market_cap |-> Get(p.info.dict, "marketCap", Num(0)),
             geo_revenue |-> p.geo,
             currency |-> Get(p.info.dict, "currency", "USD")])

get_company_financials(ticker, p) ==
    IF p.info.kind = "raise"
    THEN Raise("Exception", <<"info unavailable for ", ticker>>)
    ELSE IF p.financials.kind = "raise"
    THEN Raise("Exception", <<"financials unavailable for ", ticker>>)
    ELSE IF FrameEmpty(p.financials.frame)
    THEN Raise("ValueError", <<"Could not fetch financial data for ", ticker>>)
    ELSE
      LET info == p.info.dict
          latest_financials == p.financials.frame[1]
          total_revenue == Get(latest_financials, "Total Revenue", Num(0))
          market_cap == Get(info, "marketCap", Num(0))
          geo_revenue == IF p.geo.kind = "raise" THEN PyNone ELSE p.geo
      IN Ok([name |-> Get(info, "longName", ticker),
             ticker |-> ticker,
             total_revenue |-> total_revenue,
             market_cap |-> market_cap,
             geo_revenue |-> geo_revenue,
             currency |-> Get(info, "currency", "USD")])

\* the provider calls get_company_financials makes, in order
provider_calls(ticker, p) ==
    IF p.info.kind = "raise" THEN << <<"info", ticker>> >>
    ELSE IF p.financials.kind = "raise" \/ FrameEmpty(p.financials.frame)
    THEN << <<"info", ticker>>, <<"financials", ticker>> >>
    ELSE << <<"info", ticker>>, <<"financials", ticker>>,
            <<"get_geographical_revenue", ticker>> >>

(***************************************************************************)
(* calculate_eu_revenue: geo_revenue is PyNone or [kind |-> "map", map].   *)
(***************************************************************************)
RECURSIVE FirstRegion_nobreak(_, _)
\* the loop without its break: the last region in the index wins
FirstRegion_nobreak(map, i) ==
    IF i < 1 THEN Num(0)
    ELSE IF i <= Len(eu_regions) /\ eu_regions[i] \in DOMAIN map
    THEN map[eu_regions[i]]
    ELSE FirstRegion_nobreak(map, i - 1)

FirstRegion_last(map, i) == FirstRegion_nobreak(map, Len(eu_regions))

RECURSIVE FirstRegion(_, _)
\* the loop over eu_regions from position i: the value of the first region
\* in the index, or the initial eu_revenue = 0
FirstRegion(map, i) ==
    IF i > Len(eu_regions) THEN Num(0)
    ELSE IF eu_regions[i] \in DOMAIN map THEN map[eu_regions[i]]
    ELSE FirstRegion(map, i + 1)

\* the same with the estimate at 3% instead of 30%
calculate_eu_revenue_fraction(revenue, geo_revenue) ==
    LET eu_revenue ==
          IF geo_revenue.kind # "None" /\ DOMAIN geo_revenue.map # {}
          THEN FirstRegion(geo_revenue.map, 1)
          ELSE FMul(revenue, Float(3, 100))
    IN <<eu_revenue, [eu_revenue_estimated |-> geo_revenue.kind = "None"]>>

calculate_eu_revenue(revenue, geo_revenue) ==
    LET eu_revenue ==
          IF geo_revenue.kind # "None" /\ DOMAIN geo_revenue.map # {}
          THEN FirstRegion(geo_revenue.map, 1)
          ELSE FMul(revenue, Float(3, 10))
    IN <<eu_revenue, [eu_revenue_estimated |-> geo_revenue.kind = "None"]>>

(***************************************************************************)
(* analyze_merger_eumr_compliance.                                         *)
(***************************************************************************)
\* the same with >= for >
primary_threshold_met_inclusive(combined_worldwide_eur, company1_eu_eur, company2_eu_eur) ==
    /\ ~FGt(Num(PRIMARY_WORLDWIDE), combined_worldwide_eur)
    /\ ~FGt(Num(PRIMARY_EU), company1_eu_eur)
    /\ ~FGt(Num(PRIMARY_EU), company2_eu_eur)
    /\ ~IsNaN(combined_worldwide_eur) /\ ~IsNaN(company1_eu_eur)
    /\ ~IsNaN(company2_eu_eur)

primary_threshold_met(combined_worldwide_eur, company1_eu_eur, company2_eu_eur) ==
    /\ FGt(combined_worldwide_eur, Num(PRIMARY_WORLDWIDE))
    /\ FGt(company1_eu_eur, Num(PRIMARY_EU))
    /\ FGt(company2_eu_eur, Num(PRIMARY_EU))

\* the same with company 2 tested against the primary EU threshold
alternative_threshold_met_copied(combined_worldwide_eur, company1_eu_eur, company2_eu_eur) ==
    /\ FGt(combined_worldwide_eur, Num(ALTERNATIVE_WORLDWIDE))
    /\ FGt(company1_eu_eur, Num(ALTERNATIVE_EU))
    /\ FGt(company2_eu_eur, Num(PRIMARY_EU))

alternative_threshold_met(combined_worldwide_eur, company1_eu_eur, company2_eu_eur) ==
    /\ FGt(combined_worldwide_eur, Num(ALTERNATIVE_WORLDWIDE))
    /\ FGt(company1_eu_eur, Num(ALTERNATIVE_EU))
    /\ FGt(company2_eu_eur, Num(ALTERNATIVE_EU))

\* the same reporting the primary regime only
notification_required_primary(primary, alternative) == primary

notification_required(primary, alternative) == primary \/ alternative

notes ==
    << "Analysis based on most recent financial data",
       "EU revenue estimates may need verification",
       "Three-member state criterion requires detailed country breakdown",
       "Exchange rates should be verified at time of transaction",
       "Current EUR/USD rate used: 1.1" >>

\* the body of the try block once both companies' data are there
BuildAnalysis(company1_data, company2_data) ==
    LET eu1 == calculate_eu_revenue(company1_data.total_revenue,
                                    company1_data.geo_revenue)
        eu2 == calculate_eu_revenue(company2_data.total_revenue,
                                    company2_data.geo_revenue)
        company1_eu_revenue == eu1[1]
        company2_eu_revenue == eu2[1]
        combined_worldwide_revenue ==
            FAdd(company1_data.total_revenue, company2_data.total_revenue)
        combined_eu_revenue == FAdd(company1_eu_revenue, company2_eu_revenue)
        combined_market_cap ==
            FAdd(company1_data.market_cap, company2_data.market_cap)
        combined_worldwide_eur == FDiv(combined_worldwide_revenue, eur_usd_rate)
        company1_eu_eur == FDiv(company1_eu_revenue, eur_usd_rate)
        company2_eu_eur == FDiv(company2_eu_revenue, eur_usd_rate)
        primary == primary_threshold_met(combined_worldwide_eur,
                                         company1_eu_eur, company2_eu_eur)
        alternative == alternative_threshold_met(combined_worldwide_eur,
                                                 company1_eu_eur, company2_eu_eur)
    IN [company1 |->
          [name |-> company1_data.name,
           ticker |-> company1_data.ticker,
           worldwide_revenue |-> company1_data.total_revenue,
           eu_revenue |-> company1_eu_revenue,
           market_cap |-> company1_data.market_cap,
           eu_revenue_notes |-> eu1[2]],
        company2 |->
          [name |-> company2_data.name,
           ticker |-> company2_data.ticker,
           worldwide_revenue |-> company2_data.total_revenue,
           eu_revenue |-> company2_eu_revenue,
           market_cap |-> company2_data.market_cap,
           eu_revenue_notes |-> eu2[2]],
        combined_metrics |->
          [worldwide_revenue_usd |-> combined_worldwide_revenue,
           worldwide_revenue_eur |-> combined_worldwide_eur,
           eu_revenue_eur |-> FDiv(combined_eu_revenue, eur_usd_rate),
           combined_market_cap |-> combined_market_cap],
        eumr_analysis |->
          [primary_threshold_met |-> primary,
           alternative_threshold_met |-> alternative,
           notification_required |-> notification_required(primary, alternative),
           thresholds |->
             [primary |-> [worldwide_revenue |-> PRIMARY_WORLDWIDE,
                           eu_revenue |-> PRIMARY_EU],
              alternative |-> [worldwide_revenue |-> ALTERNATIVE_WORLDWIDE,
                               eu_revenue |-> ALTERNATIVE_EU]],
           notes |-> notes]]

\* except Exception as e: raise ValueError(f"Error performing EUMR analysis: {str(e)}")
Wrap(e) == Raise("ValueError", <<"Error performing EUMR analysis: ">> \o e.msg)

analyze_merger_eumr_compliance(company1_ticker, company2_ticker, p1, p2) ==
    LET company1_data == get_company_financials(company1_ticker, p1)
        company2_data == get_company_financials(company2_ticker, p2)
    IN IF company1_data.kind = "raise" THEN Wrap(company1_data)
       ELSE IF company2_data.kind = "raise" THEN Wrap(company2_data)
       ELSE Ok(BuildAnalysis(company1_data.value, company2_data.value))

\* the provider calls of one evaluation: company 2 is fetched only after
\* company 1's data came back
analyze_calls(company1_ticker, company2_ticker, p1, p2) ==
    provider_calls(company1_ticker, p1)
      \o (IF get_company_financials(company1_ticker, p1).kind = "raise" THEN <<>>
          ELSE provider_calls(company2_ticker, p2))

(***************************************************************************)
(* generate_merger_report.  The report is the sequence of its lines         *)
(* (report.split('\n')), a line the sequence of its pieces of text.         *)
(***************************************************************************)
DigitChar == <<"0", "1", "2", "3", "4", "5", "6", "7", "8", "9">>

RECURSIVE Digits(_)
\* the decimal digits of a small k, none for 0
Digits(k) ==
    IF k = 0 THEN <<>> ELSE Digits(k \div 10) \o <<DigitChar[(k % 10) + 1]>>

\* k < 10000 in four digits
FourDigits(k) ==
    <<DigitChar[(k \div 1000) + 1], DigitChar[((k \div 100) % 10) + 1],
      DigitChar[((k \div 10) % 10) + 1], DigitChar[(k % 10) + 1]>>

RECURSIVE Decimal(_)
\* the decimal digits of a, none for 0, four at a time
Decimal(a) ==
    IF Len(a) <= 1 THEN Digits(Limb(a, 1))
    ELSE Decimal(Quot(a, 10000)) \o FourDigits(Rem(a, 10000))

RECURSIVE Group(_)
\* the ',' option: a comma before every group of three digits
Group(ds) ==
    IF Len(ds) <= 3 THEN ds
    ELSE Group(SubSeq(ds, 1, Len(ds) - 3)) \o <<",">>
           \o SubSeq(ds, Len(ds) - 2, Len(ds))

\* q, one more when the part cut off is above one half (c: its sign against
\* one half), or is one half and q is odd
HalfEven(q, c) ==
    IF c > 0 \/ (c = 0 /\ Limb(q, 1) % 2 = 1) THEN Add(q, <<1>>) ELSE q

\* |x| in hundredths, rounded to a whole number as '.2f' does: the float's
\* exact value to the nearest, ties to even
Hundredths(x) ==
    IF x.e >= 0 THEN Times(Shl(x.m, x.e), 100)
    ELSE HalfEven(Shr(Times(x.m, 100), -x.e),
                  Cmp(Low(Times(x.m, 100), -x.e), Shl(<<1>>, -x.e - 1)))

\* at least one digit before the point
Filled(ds) == [i \in 1..(3 - Len(ds)) |-> "0"] \o ds

Pointed(ds) ==
    Group(SubSeq(ds, 1, Len(ds) - 2)) \o <<".">>
      \o SubSeq(ds, Len(ds) - 1, Len(ds))

\* f"{x:,.2f}"
Format2f(x) ==
    IF IsNaN(x) THEN <<"n", "a", "n">>
    ELSE (IF x.neg THEN <<"-">> ELSE <<>>)
           \o Pointed(Filled(Decimal(Hundredths(x))))

\* the same with the two words exchanged
threshold_verdict_swapped(met) == IF met THEN "Not Met" ELSE "Met"

\* 'Met' if ... else 'Not Met'
threshold_verdict(met) == IF met THEN "Met" ELSE "Not Met"

\* ' (EU Revenue Estimated)' if ... else ''
estimated_annotation(company) ==
    IF company.eu_revenue_notes.eu_revenue_estimated
    THEN <<" (EU Revenue Estimated)">> ELSE <<>>

company_block(label, company) ==
    << <<label, company.name, " (", company.ticker, ")">>,
       <<"-------------------------------------------------------------------------">>,
       <<"Worldwide Revenue: $">> \o Format2f(company.worldwide_revenue),
       <<"EU Revenue: $">> \o Format2f(company.eu_revenue),
       <<"Market Cap: $">> \o Format2f(company.market_cap),
       estimated_annotation(company),
       <<>> >>

generate_merger_report(analysis) ==
    << <<>>,
       <<"Merger EUMR Compliance Analysis Report">>,
       <<"====================================">>,
       <<>> >>
    \o company_block("Company 1: ", analysis.company1)
    \o company_block("Company 2: ", analysis.company2)
    \o << <<"Combined Metrics">>,
          <<"--------------">>,
          <<"Worldwide Revenue (USD): $">>
            \o Format2f(analysis.combined_metrics.worldwide_revenue_usd),
          <<"Worldwide Revenue (EUR): €">>
            \o Format2f(analysis.combined_metrics.worldwide_revenue_eur),
          <<"Combined EU Revenue (EUR): €">>
            \o Format2f(analysis.combined_metrics.eu_revenue_eur),
          <<"Combined Market Cap: $">>
            \o Format2f(analysis.combined_metrics.combined_market_cap),
          <<>>,
          <<"EUMR Compliance Analysis">>,
          <<"----------------------">>,
          <<"Primary Threshold (€5B worldwide, €250M EU each): ",
            threshold_verdict(analysis.eumr_analysis.primary_threshold_met)>>,
          <<"Alternative Threshold (€2.5B worldwide, €100M EU each): ",
            threshold_verdict(analysis.eumr_analysis.alternative_threshold_met)>>,
          <<>>,
          <<"EUMR Notification Required: ",
            IF analysis.eumr_analysis.notification_required THEN "YES" ELSE "NO">>,
          <<>>,
          <<"Important Notes:">> >>
    \o [i \in 1..Len(analysis.eumr_analysis.notes) |->
          <<"- ", analysis.eumr_analysis.notes[i]>>]
    \o << <<>> >>

(***************************************************************************)
(* Text: str as the sequence of its characters' code points.               *)
(***************************************************************************)
\* ord() of the printable ASCII characters (the grave accent, 96, apart)
Ord ==
      (" " :> 32) @@ ("!" :> 33) @@ ("\"" :> 34) @@ ("#" :> 35) @@
      ("$" :> 36) @@ ("%" :> 37) @@ ("&" :> 38) @@ ("'" :> 39) @@
      ("(" :> 40) @@ (")" :> 41) @@ ("*" :> 42) @@ ("+" :> 43) @@
      ("," :> 44) @@ ("-" :> 45) @@ ("." :> 46) @@ ("/" :> 47) @@
      ("0" :> 48) @@ ("1" :> 49) @@ ("2" :> 50) @@ ("3" :> 51) @@
      ("4" :> 52) @@ ("5" :> 53) @@ ("6" :> 54) @@ ("7" :> 55) @@
      ("8" :> 56) @@ ("9" :> 57) @@ (":" :> 58) @@ (";" :> 59) @@
      ("<" :> 60) @@ ("=" :> 61) @@ (">" :> 62) @@ ("?" :> 63) @@
      ("@" :> 64) @@ ("A" :> 65) @@ ("B" :> 66) @@ ("C" :> 67) @@
      ("D" :> 68) @@ ("E" :> 69) @@ ("F" :> 70) @@ ("G" :> 71) @@
      ("H" :> 72) @@ ("I" :> 73) @@ ("J" :> 74) @@ ("K" :> 75) @@
      ("L" :> 76) @@ ("M" :> 77) @@ ("N" :> 78) @@ ("O" :> 79) @@
      ("P" :> 80) @@ ("Q" :> 81) @@ ("R" :> 82) @@ ("S" :> 83) @@
      ("T" :> 84) @@ ("U" :> 85) @@ ("V" :> 86) @@ ("W" :> 87) @@
      ("X" :> 88) @@ ("Y" :> 89) @@ ("Z" :> 90) @@ ("[" :> 91) @@
      ("\\" :> 92) @@ ("]" :> 93) @@ ("^" :> 94) @@ ("_" :> 95) @@
      ("a" :> 97) @@ ("b" :> 98) @@ ("c" :> 99) @@
      ("d" :> 100) @@ ("e" :> 101) @@ ("f" :> 102) @@ ("g" :> 103) @@
      ("h" :> 104) @@ ("i" :> 105) @@ ("j" :> 106) @@ ("k" :> 107) @@
      ("l" :> 108) @@ ("m" :> 109) @@ ("n" :> 110) @@ ("o" :> 111) @@
      ("p" :> 112) @@ ("q" :> 113) @@ ("r" :> 114) @@ ("s" :> 115) @@
      ("t" :> 116) @@ ("u" :> 117) @@ ("v" :> 118) @@ ("w" :> 119) @@
      ("x" :> 120) @@ ("y" :> 121) @@ ("z" :> 122) @@ ("{" :> 123) @@
      ("|" :> 124) @@ ("}" :> 125) @@ ("~" :> 126)

\* the str written as its characters
Text(chars) == [i \in 1..Len(chars) |-> Ord[chars[i]]]

\* c is in one of the ranges <<first, last>>
InRanges(c, ranges) == \E r \in ranges : r[1] <= c /\ c <= r[2]

\* the characters str.lower() changes into one other character, as
\* <<first, last, step, offset>>: every step-th character from first to last
\* becomes the one offset further
UpperToLower ==
    { <<65, 90, 1, 32>>, <<192, 214, 1, 32>>, <<216, 222, 1, 32>>,
       <<256, 302, 2, 1>>, <<306, 310, 2, 1>>, <<313, 327, 2, 1>>,
       <<330, 374, 2, 1>>, <<376, 376, 1, -121>>, <<377, 381, 2, 1>>,
       <<385, 385, 1, 210>>, <<386, 388, 2, 1>>, <<390, 390, 1, 206>>,
       <<391, 391, 1, 1>>, <<393, 394, 1, 205>>, <<395, 395, 1, 1>>,
       <<398, 398, 1, 79>>, <<399, 399, 1, 202>>, <<400, 400, 1, 203>>,
       <<401, 401, 1, 1>>, <<403, 403, 1, 205>>, <<404, 404, 1, 207>>,
       <<406, 406, 1, 211>>, <<407, 407, 1, 209>>, <<408, 408, 1, 1>>,
       <<412, 412, 1, 211>>, <<413, 413, 1, 213>>, <<415, 415, 1, 214>>,
       <<416, 420, 2, 1>>, <<422, 422, 1, 218>>, <<423, 423, 1, 1>>,
       <<425, 425, 1, 218>>, <<428, 428, 1, 1>>, <<430, 430, 1, 218>>,
       <<431, 431, 1, 1>>, <<433, 434, 1, 217>>, <<435, 437, 2, 1>>,
       <<439, 439, 1, 219>>, <<440, 440, 1, 1>>, <<444, 444, 1, 1>>,
       <<452, 452, 1, 2>>, <<453, 453, 1, 1>>, <<455, 455, 1, 2>>,
       <<456, 456, 1, 1>>, <<458, 458, 1, 2>>, <<459, 475, 2, 1>>,
       <<478, 494, 2, 1>>, <<497, 497, 1, 2>>, <<498, 500, 2, 1>>,
       <<502, 502, 1, -97>>, <<503, 503, 1, -56>>, <<504, 542, 2, 1>>,
       <<544, 544, 1, -130>>, <<546, 562, 2, 1>>, <<570, 570, 1, 10795>>,
       <<571, 571, 1, 1>>, <<573, 573, 1, -163>>, <<574, 574, 1, 10792>>,
       <<577, 577, 1, 1>>, <<579, 579, 1, -195>>, <<580, 580, 1, 69>>,
       <<581, 581, 1, 71>>, <<582, 590, 2, 1>>, <<880, 882, 2, 1>>,
       <<886, 886, 1, 1>>, <<895, 895, 1, 116>>, <<902, 902, 1, 38>>,
       <<904, 906, 1, 37>>, <<908, 908, 1, 64>>, <<910, 911, 1, 63>>,
       <<913, 929, 1, 32>>, <<932, 939, 1, 32>>, <<975, 975, 1, 8>>,
       <<984, 1006, 2, 1>>, <<1012, 1012, 1, -60>>, <<1015, 1015, 1, 1>>,
       <<1017, 1017, 1, -7>>, <<1018, 1018, 1, 1>>, <<1021, 1023, 1, -130>>,
       <<1024, 1039, 1, 80>>, <<1040, 1071, 1, 32>>, <<1120, 1152, 2, 1>>,
       <<1162, 1214, 2, 1>>, <<1216, 1216, 1, 15>>, <<1217, 1229, 2, 1>>,
       <<1232, 1326, 2, 1>>, <<1329, 1366, 1, 48>>, <<4256, 4293, 1, 7264>>,
       <<4295, 4295, 1, 7264>>, <<4301, 4301, 1, 7264>>,
       <<5024, 5103, 1, 38864>>, <<5104, 5109, 1, 8>>,
       <<7312, 7354, 1, -3008>>, <<7357, 7359, 1, -3008>>,
       <<7680, 7828, 2, 1>>, <<7838, 7838, 1, -7615>>, <<7840, 7934, 2, 1>>,
       <<7944, 7951, 1, -8>>, <<7960, 7965, 1, -8>>, <<7976, 7983, 1, -8>>,
       <<7992, 7999, 1, -8>>, <<8008, 8013, 1, -8>>, <<8025, 8031, 2, -8>>,
       <<8040, 8047, 1, -8>>, <<8072, 8079, 1, -8>>, <<8088, 8095, 1, -8>>,
       <<8104, 8111, 1, -8>>, <<8120, 8121, 1, -8>>, <<8122, 8123, 1, -74>>,
       <<8124, 8124, 1, -9>>, <<8136, 8139, 1, -86>>, <<8140, 8140, 1, -9>>,
       <<8152, 8153, 1, -8>>, <<8154, 8155, 1, -100>>, <<8168, 8169, 1, -8>>,
       <<8170, 8171, 1, -112>>, <<8172, 8172, 1, -7>>,
       <<8184, 8185, 1, -128>>, <<8186, 8187, 1, -126>>,
       <<8188, 8188, 1, -9>>, <<8486, 8486, 1, -7517>>,
       <<8490, 8490, 1, -8383>>, <<8491, 8491, 1, -8262>>,
       <<8498, 8498, 1, 28>>, <<8544, 8559, 1, 16>>, <<8579, 8579, 1, 1>>,
       <<9398, 9423, 1, 26>>, <<11264, 11311, 1, 48>>,
       <<11360, 11360, 1, 1>>, <<11362, 11362, 1, -10743>>,
       <<11363, 11363, 1, -3814>>, <<11364, 11364, 1, -10727>>,
       <<11367, 11371, 2, 1>>, <<11373, 11373, 1, -10780>>,
       <<11374, 11374, 1, -10749>>, <<11375, 11375, 1, -10783>>,
       <<11376, 11376, 1, -10782>>, <<11378, 11378, 1, 1>>,
       <<11381, 11381, 1, 1>>, <<11390, 11391, 1, -10815>>,
       <<11392, 11490, 2, 1>>, <<11499, 11501, 2, 1>>,
       <<11506, 11506, 1, 1>>, <<42560, 42604, 2, 1>>,
       <<42624, 42650, 2, 1>>, <<42786, 42798, 2, 1>>,
       <<42802, 42862, 2, 1>>, <<42873, 42875, 2, 1>>,
       <<42877, 42877, 1, -35332>>, <<42878, 42886, 2, 1>>,
       <<42891, 42891, 1, 1>>, <<42893, 42893, 1, -42280>>,
       <<42896, 42898, 2, 1>>, <<42902, 42920, 2, 1>>,
       <<42922, 42922, 1, -42308>>, <<42923, 42923, 1, -42319>>,
       <<42924, 42924, 1, -42315>>, <<42925, 42925, 1, -42305>>,
       <<42926, 42926, 1, -42308>>, <<42928, 42928, 1, -42258>>,
       <<42929, 42929, 1, -42282>>, <<42930, 42930, 1, -42261>>,
       <<42931, 42931, 1, 928>>, <<42932, 42946, 2, 1>>,
       <<42948, 42948, 1, -48>>, <<42949, 42949, 1, -42307>>,
       <<42950, 42950, 1, -35384>>, <<42951, 42953, 2, 1>>,
       <<42960, 42960, 1, 1>>, <<42966, 42968, 2, 1>>,
       <<42997, 42997, 1, 1>>, <<65313, 65338, 1, 32>>,
       <<66560, 66599, 1, 40>>, <<66736, 66771, 1, 40>>,
       <<66928, 66938, 1, 39>>, <<66940, 66954, 1, 39>>,
       <<66956, 66962, 1, 39>>, <<66964, 66965, 1, 39>>,
       <<68736, 68786, 1, 64>>, <<71840, 71871, 1, 32>>,
       <<93760, 93791, 1, 32>>, <<125184, 125217, 1, 34>> }

\* the characters the final-sigma rule of str.lower() looks through
\* (Unicode Case_Ignorable)
CaseIgnorable ==
    { <<39, 39>>, <<46, 46>>, <<58, 58>>, <<94, 94>>, <<96, 96>>,
       <<168, 168>>, <<173, 173>>, <<175, 175>>, <<180, 180>>, <<183, 184>>,
       <<688, 879>>, <<884, 885>>, <<890, 890>>, <<900, 901>>, <<903, 903>>,
       <<1155, 1161>>, <<1369, 1369>>, <<1375, 1375>>, <<1425, 1469>>,
       <<1471, 1471>>, <<1473, 1474>>, <<1476, 1477>>, <<1479, 1479>>,
       <<1524, 1524>>, <<1536, 1541>>, <<1552, 1562>>, <<1564, 1564>>,
       <<1600, 1600>>, <<1611, 1631>>, <<1648, 1648>>, <<1750, 1757>>,
       <<1759, 1768>>, <<1770, 1773>>, <<1807, 1807>>, <<1809, 1809>>,
       <<1840, 1866>>, <<1958, 1968>>, <<2027, 2037>>, <<2042, 2042>>,
       <<2045, 2045>>, <<2070, 2093>>, <<2137, 2139>>, <<2184, 2184>>,
       <<2192, 2193>>, <<2200, 2207>>, <<2249, 2306>>, <<2362, 2362>>,
       <<2364, 2364>>, <<2369, 2376>>, <<2381, 2381>>, <<2385, 2391>>,
       <<2402, 2403>>, <<2417, 2417>>, <<2433, 2433>>, <<2492, 2492>>,
       <<2497, 2500>>, <<2509, 2509>>, <<2530, 2531>>, <<2558, 2558>>,
       <<2561, 2562>>, <<2620, 2620>>, <<2625, 2626>>, <<2631, 2632>>,
       <<2635, 2637>>, <<2641, 2641>>, <<2672, 2673>>, <<2677, 2677>>,
       <<2689, 2690>>, <<2748, 2748>>, <<2753, 2757>>, <<2759, 2760>>,
       <<2765, 2765>>, <<2786, 2787>>, <<2810, 2815>>, <<2817, 2817>>,
       <<2876, 2876>>, <<2879, 2879>>, <<2881, 2884>>, <<2893, 2893>>,
       <<2901, 2902>>, <<2914, 2915>>, <<2946, 2946>>, <<3008, 3008>>,
       <<3021, 3021>>, <<3072, 3072>>, <<3076, 3076>>, <<3132, 3132>>,
       <<3134, 3136>>, <<3142, 3144>>, <<3146, 3149>>, <<3157, 3158>>,
       <<3170, 3171>>, <<3201, 3201>>, <<3260, 3260>>, <<3263, 3263>>,
       <<3270, 3270>>, <<3276, 3277>>, <<3298, 3299>>, <<3328, 3329>>,
       <<3387, 3388>>, <<3393, 3396>>, <<3405, 3405>>, <<3426, 3427>>,
       <<3457, 3457>>, <<3530, 3530>>, <<3538, 3540>>, <<3542, 3542>>,
       <<3633, 3633>>, <<3636, 3642>>, <<3654, 3662>>, <<3761, 3761>>,
       <<3764, 3772>>, <<3782, 3782>>, <<3784, 3789>>, <<3864, 3865>>,
       <<3893, 3893>>, <<3895, 3895>>, <<3897, 3897>>, <<3953, 3966>>,
       <<3968, 3972>>, <<3974, 3975>>, <<3981, 3991>>, <<3993, 4028>>,
       <<4038, 4038>>, <<4141, 4144>>, <<4146, 4151>>, <<4153, 4154>>,
       <<4157, 4158>>, <<4184, 4185>>, <<4190, 4192>>, <<4209, 4212>>,
       <<4226, 4226>>, <<4229, 4230>>, <<4237, 4237>>, <<4253, 4253>>,
       <<4348, 4348>>, <<4957, 4959>>, <<5906, 5908>>, <<5938, 5939>>,
       <<5970, 5971>>, <<6002, 6003>>, <<6068, 6069>>, <<6071, 6077>>,
       <<6086, 6086>>, <<6089, 6099>>, <<6103, 6103>>, <<6109, 6109>>,
       <<6155, 6159>>, <<6211, 6211>>, <<6277, 6278>>, <<6313, 6313>>,
       <<6432, 6434>>, <<6439, 6440>>, <<6450, 6450>>, <<6457, 6459>>,
       <<6679, 6680>>, <<6683, 6683>>, <<6742, 6742>>, <<6744, 6750>>,
       <<6752, 6752>>, <<6754, 6754>>, <<6757, 6764>>, <<6771, 6780>>,
       <<6783, 6783>>, <<6823, 6823>>, <<6832, 6862>>, <<6912, 6915>>,
       <<6964, 6964>>, <<6966, 6970>>, <<6972, 6972>>, <<6978, 6978>>,
       <<7019, 7027>>, <<7040, 7041>>, <<7074, 7077>>, <<7080, 7081>>,
       <<7083, 7085>>, <<7142, 7142>>, <<7144, 7145>>, <<7149, 7149>>,
       <<7151, 7153>>, <<7212, 7219>>, <<7222, 7223>>, <<7288, 7293>>,
       <<7376, 7378>>, <<7380, 7392>>, <<7394, 7400>>, <<7405, 7405>>,
       <<7412, 7412>>, <<7416, 7417>>, <<7468, 7530>>, <<7544, 7544>>,
       <<7579, 7679>>, <<8125, 8125>>, <<8127, 8129>>, <<8141, 8143>>,
       <<8157, 8159>>, <<8173, 8175>>, <<8189, 8190>>, <<8203, 8207>>,
       <<8216, 8217>>, <<8228, 8228>>, <<8231, 8231>>, <<8234, 8238>>,
       <<8288, 8292>>, <<8294, 8303>>, <<8305, 8305>>, <<8319, 8319>>,
       <<8336, 8348>>, <<8400, 8432>>, <<11388, 11389>>, <<11503, 11505>>,
       <<11631, 11631>>, <<11647, 11647>>, <<11744, 11775>>,
       <<11823, 11823>>, <<12293, 12293>>, <<12330, 12333>>,
       <<12337, 12341>>, <<12347, 12347>>, <<12441, 12446>>,
       <<12540, 12542>>, <<40981, 40981>>, <<42232, 42237>>,
       <<42508, 42508>>, <<42607, 42610>>, <<42612, 42621>>,
       <<42623, 42623>>, <<42652, 42655>>, <<42736, 42737>>,
       <<42752, 42785>>, <<42864, 42864>>, <<42888, 42890>>,
       <<42994, 42996>>, <<43000, 43001>>, <<43010, 43010>>,
       <<43014, 43014>>, <<43019, 43019>>, <<43045, 43046>>,
       <<43052, 43052>>, <<43204, 43205>>, <<43232, 43249>>,
       <<43263, 43263>>, <<43302, 43309>>, <<43335, 43345>>,
       <<43392, 43394>>, <<43443, 43443>>, <<43446, 43449>>,
       <<43452, 43453>>, <<43471, 43471>>, <<43493, 43494>>,
       <<43561, 43566>>, <<43569, 43570>>, <<43573, 43574>>,
       <<43587, 43587>>, <<43596, 43596>>, <<43632, 43632>>,
       <<43644, 43644>>, <<43696, 43696>>, <<43698, 43700>>,
       <<43703, 43704>>, <<43710, 43711>>, <<43713, 43713>>,
       <<43741, 43741>>, <<43756, 43757>>, <<43763, 43764>>,
       <<43766, 43766>>, <<43867, 43871>>, <<43881, 43883>>,
       <<44005, 44005>>, <<44008, 44008>>, <<44013, 44013>>,
       <<64286, 64286>>, <<64434, 64450>>, <<65024, 65039>>,
       <<65043, 65043>>, <<65056, 65071>>, <<65106, 65106>>,
       <<65109, 65109>>, <<65279, 65279>>, <<65287, 65287>>,
       <<65294, 65294>>, <<65306, 65306>>, <<65342, 65342>>,
       <<65344, 65344>>, <<65392, 65392>>, <<65438, 65439>>,
       <<65507, 65507>>, <<65529, 65531>>, <<66045, 66045>>,
       <<66272, 66272>>, <<66422, 66426>>, <<67456, 67461>>,
       <<67463, 67504>>, <<67506, 67514>>, <<68097, 68099>>,
       <<68101, 68102>>, <<68108, 68111>>, <<68152, 68154>>,
       <<68159, 68159>>, <<68325, 68326>>, <<68900, 68903>>,
       <<69291, 69292>>, <<69446, 69456>>, <<69506, 69509>>,
       <<69633, 69633>>, <<69688, 69702>>, <<69744, 69744>>,
       <<69747, 69748>>, <<69759, 69761>>, <<69811, 69814>>,
       <<69817, 69818>>, <<69821, 69821>>, <<69826, 69826>>,
       <<69837, 69837>>, <<69888, 69890>>, <<69927, 69931>>,
       <<69933, 69940>>, <<70003, 70003>>, <<70016, 70017>>,
       <<70070, 70078>>, <<70089, 70092>>, <<70095, 70095>>,
       <<70191, 70193>>, <<70196, 70196>>, <<70198, 70199>>,
       <<70206, 70206>>, <<70367, 70367>>, <<70371, 70378>>,
       <<70400, 70401>>, <<70459, 70460>>, <<70464, 70464>>,
       <<70502, 70508>>, <<70512, 70516>>, <<70712, 70719>>,
       <<70722, 70724>>, <<70726, 70726>>, <<70750, 70750>>,
       <<70835, 70840>>, <<70842, 70842>>, <<70847, 70848>>,
       <<70850, 70851>>, <<71090, 71093>>, <<71100, 71101>>,
       <<71103, 71104>>, <<71132, 71133>>, <<71219, 71226>>,
       <<71229, 71229>>, <<71231, 71232>>, <<71339, 71339>>,
       <<71341, 71341>>, <<71344, 71349>>, <<71351, 71351>>,
       <<71453, 71455>>, <<71458, 71461>>, <<71463, 71467>>,
       <<71727, 71735>>, <<71737, 71738>>, <<71995, 71996>>,
       <<71998, 71998>>, <<72003, 72003>>, <<72148, 72151>>,
       <<72154, 72155>>, <<72160, 72160>>, <<72193, 72202>>,
       <<72243, 72248>>, <<72251, 72254>>, <<72263, 72263>>,
       <<72273, 72278>>, <<72281, 72283>>, <<72330, 72342>>,
       <<72344, 72345>>, <<72752, 72758>>, <<72760, 72765>>,
       <<72767, 72767>>, <<72850, 72871>>, <<72874, 72880>>,
       <<72882, 72883>>, <<72885, 72886>>, <<73009, 73014>>,
       <<73018, 73018>>, <<73020, 73021>>, <<73023, 73029>>,
       <<73031, 73031>>, <<73104, 73105>>, <<73109, 73109>>,
       <<73111, 73111>>, <<73459, 73460>>, <<78896, 78904>>,
       <<92912, 92916>>, <<92976, 92982>>, <<92992, 92995>>,
       <<94031, 94031>>, <<94095, 94111>>, <<94176, 94177>>,
       <<94179, 94180>>, <<110576, 110579>>, <<110581, 110587>>,
       <<110589, 110590>>, <<113821, 113822>>, <<113824, 113827>>,
       <<118528, 118573>>, <<118576, 118598>>, <<119143, 119145>>,
       <<119155, 119170>>, <<119173, 119179>>, <<119210, 119213>>,
       <<119362, 119364>>, <<121344, 121398>>, <<121403, 121452>>,
       <<121461, 121461>>, <<121476, 121476>>, <<121499, 121503>>,
       <<121505, 121519>>, <<122880, 122886>>, <<122888, 122904>>,
       <<122907, 122913>>, <<122915, 122916>>, <<122918, 122922>>,
       <<123184, 123197>>, <<123566, 123566>>, <<123628, 123631>>,
       <<125136, 125142>>, <<125252, 125259>>, <<127995, 127999>>,
       <<917505, 917505>>, <<917536, 917631>>, <<917760, 917999>> }

\* the cased characters that are not case-ignorable
Cased ==
    { <<65, 90>>, <<97, 122>>, <<170, 170>>, <<181, 181>>, <<186, 186>>,
       <<192, 214>>, <<216, 246>>, <<248, 442>>, <<444, 447>>, <<452, 659>>,
       <<661, 687>>, <<880, 883>>, <<886, 887>>, <<891, 893>>, <<895, 895>>,
       <<902, 902>>, <<904, 906>>, <<908, 908>>, <<910, 929>>, <<931, 1013>>,
       <<1015, 1153>>, <<1162, 1327>>, <<1329, 1366>>, <<1376, 1416>>,
       <<4256, 4293>>, <<4295, 4295>>, <<4301, 4301>>, <<4304, 4346>>,
       <<4349, 4351>>, <<5024, 5109>>, <<5112, 5117>>, <<7296, 7304>>,
       <<7312, 7354>>, <<7357, 7359>>, <<7424, 7467>>, <<7531, 7543>>,
       <<7545, 7578>>, <<7680, 7957>>, <<7960, 7965>>, <<7968, 8005>>,
       <<8008, 8013>>, <<8016, 8023>>, <<8025, 8025>>, <<8027, 8027>>,
       <<8029, 8029>>, <<8031, 8061>>, <<8064, 8116>>, <<8118, 8124>>,
       <<8126, 8126>>, <<8130, 8132>>, <<8134, 8140>>, <<8144, 8147>>,
       <<8150, 8155>>, <<8160, 8172>>, <<8178, 8180>>, <<8182, 8188>>,
       <<8450, 8450>>, <<8455, 8455>>, <<8458, 8467>>, <<8469, 8469>>,
       <<8473, 8477>>, <<8484, 8484>>, <<8486, 8486>>, <<8488, 8488>>,
       <<8490, 8493>>, <<8495, 8500>>, <<8505, 8505>>, <<8508, 8511>>,
       <<8517, 8521>>, <<8526, 8526>>, <<8544, 8575>>, <<8579, 8580>>,
       <<9398, 9449>>, <<11264, 11387>>, <<11390, 11492>>, <<11499, 11502>>,
       <<11506, 11507>>, <<11520, 11557>>, <<11559, 11559>>,
       <<11565, 11565>>, <<42560, 42605>>, <<42624, 42651>>,
       <<42786, 42863>>, <<42865, 42887>>, <<42891, 42894>>,
       <<42896, 42954>>, <<42960, 42961>>, <<42963, 42963>>,
       <<42965, 42969>>, <<42997, 42998>>, <<43002, 43002>>,
       <<43824, 43866>>, <<43872, 43880>>, <<43888, 43967>>,
       <<64256, 64262>>, <<64275, 64279>>, <<65313, 65338>>,
       <<65345, 65370>>, <<66560, 66639>>, <<66736, 66771>>,
       <<66776, 66811>>, <<66928, 66938>>, <<66940, 66954>>,
       <<66956, 66962>>, <<66964, 66965>>, <<66967, 66977>>,
       <<66979, 66993>>, <<66995, 67001>>, <<67003, 67004>>,
       <<68736, 68786>>, <<68800, 68850>>, <<71840, 71903>>,
       <<93760, 93823>>, <<119808, 119892>>, <<119894, 119964>>,
       <<119966, 119967>>, <<119970, 119970>>, <<119973, 119974>>,
       <<119977, 119980>>, <<119982, 119993>>, <<119995, 119995>>,
       <<119997, 120003>>, <<120005, 120069>>, <<120071, 120074>>,
       <<120077, 120084>>, <<120086, 120092>>, <<120094, 120121>>,
       <<120123, 120126>>, <<120128, 120132>>, <<120134, 120134>>,
       <<120138, 120144>>, <<120146, 120485>>, <<120488, 120512>>,
       <<120514, 120538>>, <<120540, 120570>>, <<120572, 120596>>,
       <<120598, 120628>>, <<120630, 120654>>, <<120656, 120686>>,
       <<120688, 120712>>, <<120714, 120744>>, <<120746, 120770>>,
       <<120772, 120779>>, <<122624, 122633>>, <<122635, 122654>>,
       <<125184, 125251>>, <<127280, 127305>>, <<127312, 127337>>,
       <<127344, 127369>> }

\* the character c moved by the offset of its row, if it has one
Shifted(c, rows) ==
    IF rows = {} THEN <<c>> ELSE <<c + (CHOOSE r \in rows : TRUE)[4]>>

\* chr(c).lower(), the capital sigma apart
LowerChar(c) ==
    IF c = 304 THEN <<105, 775>>
    ELSE Shifted(c, { r \in UpperToLower :
                        r[1] <= c /\ c <= r[2] /\ (c - r[1]) % r[3] = 0 })

\* the last of the positions before i is cased and the first of those after
\* i, if any, is not
EndsWord(i, positions, cased) ==
    /\ \E j \in positions :
         /\ j < i /\ j \in cased
         /\ \A k \in positions : k < i => k <= j
    /\ \A j \in positions :
         (j > i /\ \A k \in positions : k > i => j <= k) => j \notin cased

\* the capital sigma at i ends a word: a cased character before it and none
\* after it, case-ignorable characters skipped
FinalSigma(s, i) ==
    EndsWord(i, { j \in 1..Len(s) : ~InRanges(s[j], CaseIgnorable) },
             { j \in 1..Len(s) : InRanges(s[j], Cased) })

RECURSIVE LowerFrom(_, _)
LowerFrom(s, i) ==
    IF i > Len(s) THEN <<>>
    ELSE (IF s[i] = 931 THEN (IF FinalSigma(s, i) THEN <<962>> ELSE <<963>>)
          ELSE LowerChar(s[i]))
         \o LowerFrom(s, i + 1)

\* str.lower()
lower(s) == LowerFrom(s, 1)

\* the characters str.isspace() holds for, which str.strip() removes
Whitespace ==
    (9..13) \cup (28..32) \cup {133, 160, 5760} \cup (8192..8202)
      \cup {8232, 8233, 8239, 8287, 12288}

RECURSIVE lstrip(_)
lstrip(s) == IF Len(s) > 0 /\ s[1] \in Whitespace THEN lstrip(Tail(s)) ELSE s

RECURSIVE rstrip(_)
rstrip(s) ==
    IF Len(s) > 0 /\ s[Len(s)] \in Whitespace
    THEN rstrip(SubSeq(s, 1, Len(s) - 1)) ELSE s

\* str.strip()
strip(s) == rstrip(lstrip(s))

RECURSIVE replace(_, _)
\* s.replace(old, ''), old not empty: every occurrence, left to right
replace(s, old) ==
    IF Len(s) < Len(old) THEN s
    ELSE IF SubSeq(s, 1, Len(old)) = old
    THEN replace(SubSeq(s, Len(old) + 1, Len(s)), old)
    ELSE <<s[1]>> \o replace(Tail(s), old)

\* sub in s
Contains(sub, s) ==
    \E i \in 0..(Len(s) - Len(sub)) : SubSeq(s, i + 1, i + Len(sub)) = sub

suffixes ==
    << Text(<<" ", "I", "n", "c">>),
       Text(<<" ", "I", "n", "c", ".">>),
       Text(<<" ", "C", "o", "r", "p", "o", "r", "a", "t", "i", "o", "n">>),
       Text(<<" ", "C", "o", "r", "p">>),
       Text(<<" ", "C", "o", "r", "p", ".">>),
       Text(<<" ", "L", "t", "d">>),
       Text(<<" ", "L", "t", "d", ".">>),
       Text(<<" ", "L", "i", "m", "i", "t", "e", "d">>),
       Text(<<" ", "L", "L", "C">>),
       Text(<<" ", "C", "o">>),
       Text(<<" ", "C", "o", ".">>) >>

RECURSIVE RemoveSuffixes(_, _)
\* for suffix in suffixes: clean_name = clean_name.replace(suffix, '')
RemoveSuffixes(clean_name, i) ==
    IF i > Len(suffixes) THEN clean_name
    ELSE RemoveSuffixes(replace(clean_name, suffixes[i]), i + 1)

(***************************************************************************)
(* find_ticker.  env.file is what open/json.load give, env.info what        *)
(* yf.Ticker(t).info gives for each ticker, env.dow, env.nasdaq, env.sp500  *)
(* what the yahoo_fin index lists give.  The result carries the external    *)
(* calls made, in order.                                                    *)
(***************************************************************************)
RECURSIVE Flatten_first(_, _)
\* the same with the first category that lists a name winning
Flatten_first(categories, i) ==
    IF i > Len(categories) THEN <<>>
    ELSE LET rest == Flatten_first(categories, i + 1)
             here == categories[i]
         IN [k \in DOMAIN here \cup DOMAIN rest |->
               IF k \in DOMAIN here THEN here[k] ELSE rest[k]]

RECURSIVE Flatten(_, _)
\* {k: v for category in companies_data.values() for k, v in category.items()}
\* from category i on: a later category overrides an earlier one
Flatten(categories, i) ==
    IF i > Len(categories) THEN <<>>
    ELSE LET rest == Flatten(categories, i + 1)
             here == categories[i]
         IN [k \in DOMAIN here \cup DOMAIN rest |->
               IF k \in DOMAIN rest THEN rest[k] ELSE here[k]]

\* return [("Error", str(e))]
ErrorResult(msg) == Ok(<< <<"Error", msg>> >>)

\* clean_name.lower() in company_info or company_info in clean_name.lower()
Matching(clean_lower, company_info) ==
    Contains(clean_lower, company_info) \/ Contains(company_info, clean_lower)

\* the body of the loop for one ticker, given the provider's answer for it:
\* the match it appends, if any (a failed fetch is skipped)
Matched(ticker, answer, clean_name) ==
    IF answer.kind = "raise" THEN <<>>
    ELSE IF Matching(lower(clean_name),
                     lower(Get(answer.dict, "longName", <<>>)))
    THEN << <<ticker, Get(answer.dict, "longName", <<>>)>> >>
    ELSE <<>>

\* one turn of the loop followed by the others: matches and provider calls
Turn(ticker, here, rest) ==
    [matches |-> here \o rest.matches,
     io |-> << <<"info", ticker>> >> \o rest.io]

RECURSIVE Scan_halting(_, _, _, _)
\* the same with a failed fetch ending the loop (break for continue)
Scan_halting(tickers, i, clean_name, info) ==
    IF i > Len(tickers) THEN [matches |-> <<>>, io |-> <<>>]
    ELSE IF info[tickers[i]].kind = "raise"
    THEN [matches |-> <<>>, io |-> << <<"info", tickers[i]>> >>]
    ELSE Turn(tickers[i], Matched(tickers[i], info[tickers[i]], clean_name),
              Scan_halting(tickers, i + 1, clean_name, info))

RECURSIVE Scan(_, _, _, _)
\* the loop over tickers from position i: matches and provider calls
Scan(tickers, i, clean_name, info) ==
    IF i > Len(tickers) THEN [matches |-> <<>>, io |-> <<>>]
    ELSE Turn(tickers[i], Matched(tickers[i], info[tickers[i]], clean_name),
              Scan(tickers, i + 1, clean_name, info))

\* after the loop: the matches if there are any, else results (empty)
Searched(scan) ==
    [ret |-> Ok(IF scan.matches # <<>> THEN scan.matches ELSE <<>>),
     io |-> << <<"tickers_dow">>, <<"tickers_nasdaq">>, <<"tickers_sp500">> >>
              \o scan.io]

\* the fallback search, after the directory missed; a failed index list
\* leaves results empty
Fallback(company_name, env) ==
    IF env.dow.kind = "raise"
    THEN [ret |-> Ok(<<>>), io |-> << <<"tickers_dow">> >>]
    ELSE IF env.nasdaq.kind = "raise"
    THEN [ret |-> Ok(<<>>),
          io |-> << <<"tickers_dow">>, <<"tickers_nasdaq">> >>]
    ELSE IF env.sp500.kind = "raise"
    THEN [ret |-> Ok(<<>>),
          io |-> << <<"tickers_dow">>, <<"tickers_nasdaq">>,
                    <<"tickers_sp500">> >>]
    ELSE Searched(Scan(env.dow.list \o env.nasdaq.list \o env.sp500.list, 1,
                       RemoveSuffixes(strip(company_name), 1), env.info))

\* the directory hit: one candidate, named by the provider
FastPath(company_name, ticker, info) ==
    IF info[ticker].kind = "raise"
    THEN [ret |-> ErrorResult(info[ticker].msg), io |-> << <<"info", ticker>> >>]
    ELSE [ret |-> Ok(<< <<ticker, Get(info[ticker].dict, "longName", company_name)>> >>),
          io |-> << <<"info", ticker>> >>]

\* with open('companies_data.json', 'r') as f
Opened == << <<"open", "companies_data.json">> >>

\* if company_check in common_companies: ... else the fallback search
Lookup(company_name, env, common_companies, company_check) ==
    IF company_check \in DOMAIN common_companies
    THEN FastPath(company_name, common_companies[company_check], env.info)
    ELSE Fallback(company_name, env)

\* the result, the opening of the file ahead of its external calls
AfterOpen(found) == [ret |-> found.ret, io |-> Opened \o found.io]

find_ticker(company_name, env) ==
    IF env.file.kind = "raise"
    THEN [ret |-> ErrorResult(env.file.msg), io |-> Opened]
    ELSE IF env.file.data.kind # "object"
    THEN [ret |-> ErrorResult(<<"'list' object has no attribute 'values'">>),
          io |-> Opened]
    ELSE AfterOpen(Lookup(company_name, env,
                          Flatten(env.file.data.categories, 1),
                          strip(lower(company_name))))

(***************************************************************************)
(* The provider's answers the evaluator is run against.                    *)
(***************************************************************************)
\* 'Total Revenue' of the latest fiscal year, in millions: NaN, a negative
\* value, 0.75 dollars (0.75 * 0.30 is the float 0.22499999999999998), and
\* values on both sides of the worldwide thresholds (2750 / 1.1 = 2500,
\* 5500 / 1.1 = 5000)
RevenueValues == {NaN, Num(-5), Frac(3, 4000000), Num(2750), Num(3000)}

\* revenue reported for each region (275 / 1.1 = 250, 110 / 1.1 = 100)
RegionRevenue ==
    ("Europe" :> Num(276)) @@ ("EU" :> Num(275)) @@ ("EMEA" :> Num(110))
      @@ ("Asia" :> Num(900))

GeoMaps ==
    { [kind |-> "map", map |-> [r \in D |-> RegionRevenue[r]]] :
        D \in SUBSET DOMAIN RegionRevenue }

GeoAnswers == {[kind |-> "raise"], PyNone} \cup GeoMaps

FullInfo ==
    [longName |-> "Microsoft Corporation", marketCap |-> Num(2000),
     currency |-> "USD"]

BareInfo == [currency |-> "USD"]

\* a column of the statement: the rows it has
Columns ==
    { ("Net Income" :> Num(7)) }
      \cup { ("Total Revenue" :> v) @@ ("Net Income" :> Num(7)) : v \in RevenueValues }

\* older fiscal years, never read
OlderColumn == ("Total Revenue" :> Num(9999)) @@ ("Net Income" :> Num(7))

\* statements of one fiscal year
OneYearFrames == { <<c>> : c \in Columns }

\* statements of one fiscal year, and one statement with older years behind it
Frames ==
    OneYearFrames
      \cup { <<("Total Revenue" :> Num(3000)) @@ ("Net Income" :> Num(7))>>
               \o [i \in 1..k |-> OlderColumn] : k \in 1..(MaxColumns - 1) }

\* statements with no column, or with a column and no row
EmptyFrames == { <<>>, << <<>> >> }

Answer(i, f, g) == [info |-> i, financials |-> f, geo |-> g]

ProviderAnswers ==
    { Answer([kind |-> "raise"], [kind |-> "raise"], [kind |-> "raise"]),
      Answer([kind |-> "ok", dict |-> FullInfo], [kind |-> "raise"],
             [kind |-> "raise"]) }
    \cup { Answer([kind |-> "ok", dict |-> i], [kind |-> "ok", frame |-> f],
                  [kind |-> "raise"]) :
             i \in {FullInfo, BareInfo}, f \in EmptyFrames }
    \cup { Answer([kind |-> "ok", dict |-> FullInfo],
                  [kind |-> "ok", frame |-> f], g) :
             f \in OneYearFrames, g \in GeoAnswers }
    \cup { Answer([kind |-> "ok", dict |-> i],
                  [kind |-> "ok", frame |-> f], PyNone) :
             i \in {FullInfo, BareInfo}, f \in Frames }

AnalyzeCalls ==
    { [fn |-> "analyze_merger_eumr_compliance",
       company1_ticker |-> "MSFT", company2_ticker |-> "AAPL",
       p1 |-> a, p2 |-> b] : a \in ProviderAnswers, b \in ProviderAnswers }

(***************************************************************************)
(* The inputs the resolver is run against.                                 *)
(***************************************************************************)
CompanyNames ==
    { Text(<<"a", "c", "m", "e">>),
      Text(<<" ", "A", "c", "m", "e", " ">>),
      Text(<<"A", "c", "m", "e", " ", "I", "n", "c">>),
      Text(<<"Z", "e", "d", " ", "C", "o", ".">>),
      Text(<<"N", "o", "p", "e">>) }

KeyAcme == Text(<<"a", "c", "m", "e">>)

KeyZed == Text(<<"z", "e", "d">>)

\* companies_data.json: absent, not JSON, a JSON array, or an object of
\* categories (the second one lists acme twice, the third capitalises its key)
Files ==
    { [kind |-> "raise",
       msg |-> <<"[Errno 2] No such file or directory: 'companies_data.json'">>],
      [kind |-> "raise", msg |-> <<"Expecting value: line 1 column 1 (char 0)">>],
      [kind |-> "ok", data |-> [kind |-> "array"]],
      [kind |-> "ok", data |-> [kind |-> "object", categories |-> <<>>]],
      [kind |-> "ok",
       data |-> [kind |-> "object", categories |-> <<(KeyAcme :> "ACM")>>]],
      [kind |-> "ok",
       data |-> [kind |-> "object",
                 categories |-> <<(KeyAcme :> "ACM") @@ (KeyZed :> "ZED"),
                                  (KeyAcme :> "ZED")>>]],
      [kind |-> "ok",
       data |-> [kind |-> "object",
                 categories |-> <<(Text(<<"A", "c", "m", "e">>) :> "ACM")>>]] }

Tickers == {"ACM", "ZED"}

LongNames ==
    ("ACM" :> Text(<<"A", "c", "m", "e", " ", "C", "o", "r", "p", "o", "r", "a", "t", "i", "o", "n">>))
      @@ ("ZED" :> Text(<<"Z", "e", "d">>))
      @@ ("MSFT" :> Text(<<"M", "i", "c", "r", "o", "s", "o", "f", "t", " ", "C", "o", "r", "p", "o", "r", "a", "t", "i", "o", "n">>))
      @@ ("AAPL" :> Text(<<"A", "p", "p", "l", "e", " ", "I", "n", "c", ".">>))

\* yf.Ticker(t).info: fails, has no longName, or has one
InfoAnswers(t) ==
    { [kind |-> "raise", msg |-> <<"No data found for ", t>>],
      [kind |-> "ok", dict |-> [currency |-> "USD"]],
      [kind |-> "ok", dict |-> [longName |-> LongNames[t], currency |-> "USD"]] }

InfoTables == { f \in [Tickers -> UNION {InfoAnswers(t) : t \in Tickers}] :
                  \A t \in Tickers : f[t] \in InfoAnswers(t) }

TickerLists == UNION { [1..k -> Tickers] : k \in 0..MaxUniverse }

ListAnswer(l) == [kind |-> "ok", list |-> l]

\* the three index lists, or the first of them that fails
Universes ==
    { [dow |-> ListAnswer(d), nasdaq |-> ListAnswer(n), sp500 |-> ListAnswer(x)] :
        <<d, n, x>> \in
          { t \in TickerLists \X TickerLists \X TickerLists :
              Len(t[1]) + Len(t[2]) + Len(t[3]) <= MaxUniverse } }
    \cup { [dow |-> [kind |-> "raise"], nasdaq |-> ListAnswer(<<>>),
            sp500 |-> ListAnswer(<<>>)],
           [dow |-> ListAnswer(<<"ACM">>), nasdaq |-> [kind |-> "raise"],
            sp500 |-> ListAnswer(<<>>)],
           [dow |-> ListAnswer(<<>>), nasdaq |-> ListAnswer(<<"ACM">>),
            sp500 |-> [kind |-> "raise"]] }

FindTickerCalls ==
    { [fn |-> "find_ticker", company_name |-> c,
       env |-> [file |-> f, info |-> i, dow |-> u.dow, nasdaq |-> u.nasdaq,
                sp500 |-> u.sp500]] :
        c \in CompanyNames, f \in Files, i \in InfoTables, u \in Universes }

(***************************************************************************)
(* app.py: the flow behind the "Analyze Selected Companies" button.        *)
(***************************************************************************)
Str(x) == [kind |-> "str", s |-> x]

\* truth value of a ticker: None and '' are false
Truthy(ticker) == ticker.kind = "str" /\ ticker.s # ""

\* truth value of a name: None and '' are false
TruthyName(full_name) == full_name.kind = "str" /\ full_name.s # <<>>

\* ticker_results[0], or (None, None) for no result and for the sentinel
FirstCandidate(ticker_results) ==
    IF ticker_results # <<>> /\ ticker_results[1][1] # "Error"
    THEN <<Str(ticker_results[1][1]), Str(ticker_results[1][2])>>
    ELSE <<PyNone, PyNone>>

get_company_info(company_name, env) ==
    FirstCandidate(find_ticker(company_name, env).ret.value)

\* the ticker as it appears in f-strings
Shown(ticker) == IF ticker.kind = "None" THEN "None" ELSE ticker.s

\* yf.Ticker(None) has no symbol to fetch: its first provider call fails
NoTickerAnswer ==
    Answer([kind |-> "raise"], [kind |-> "raise"], [kind |-> "raise"])

ProviderFor(ticker, p) == IF ticker.kind = "None" THEN NoTickerAnswer ELSE p

AppIdle ==
    [ticker1 |-> PyNone, full_name1 |-> PyNone,
     ticker2 |-> PyNone, full_name2 |-> PyNone,
     evaluated |-> FALSE, shown |-> <<>>, exception |-> PyNone]

\* utils/constants.py: the companies with product pages
COMPANY_URLS == { Text(<<"M", "i", "c", "r", "o", "s", "o", "f", "t">>), Text(<<"A", "p", "p", "l", "e">>) }

\* the names offered by the two select boxes: the directory's keys,
\* title-cased, the second box without the first one's choice
AppNames == { Text(<<"M", "i", "c", "r", "o", "s", "o", "f", "t">>), Text(<<"A", "p", "p", "l", "e">>), Text(<<"A", "c", "m", "e">>) }

AppDirectory ==
    (Text(<<"m", "i", "c", "r", "o", "s", "o", "f", "t">>) :> "MSFT")
      @@ (Text(<<"a", "p", "p", "l", "e">>) :> "AAPL")

\* companies_data.json when the button is pressed: absent, or an object of
\* one category, with or without the key acme
AppFiles ==
    { [kind |-> "raise",
       msg |-> <<"[Errno 2] No such file or directory: 'companies_data.json'">>],
      [kind |-> "ok",
       data |-> [kind |-> "object", categories |-> <<AppDirectory>>]],
      [kind |-> "ok",
       data |-> [kind |-> "object",
                 categories |-> <<AppDirectory @@ (KeyAcme :> "ACM")>>]] }

AppTickers == {"MSFT", "AAPL", "ACM"}

\* yf.Ticker(t).info during the resolution: one answer for MSFT, one kind of
\* answer for the other tickers
AppInfoTables ==
    { f \in [AppTickers -> UNION {InfoAnswers(t) : t \in AppTickers}] :
        /\ \A t \in AppTickers : f[t] \in InfoAnswers(t)
        /\ f["AAPL"].kind = f["ACM"].kind
        /\ DOMAIN f["AAPL"] = DOMAIN f["ACM"]
        /\ f["AAPL"].kind = "ok" => DOMAIN f["AAPL"].dict = DOMAIN f["ACM"].dict }

AppUniverses ==
    { [dow |-> [kind |-> "raise"], nasdaq |-> ListAnswer(<<>>),
       sp500 |-> ListAnswer(<<>>)],
      [dow |-> ListAnswer(<<>>), nasdaq |-> ListAnswer(<<>>),
       sp500 |-> ListAnswer(<<>>)],
      [dow |-> ListAnswer(<<"ACM">>), nasdaq |-> ListAnswer(<<>>),
       sp500 |-> ListAnswer(<<>>)] }

AppAnswers ==
    { NoTickerAnswer,
      Answer([kind |-> "ok", dict |-> FullInfo], [kind |-> "ok", frame |-> <<>>],
             [kind |-> "raise"]),
      Answer([kind |-> "ok", dict |-> FullInfo],
             [kind |-> "ok",
              frame |-> <<("Total Revenue" :> Num(2750)) @@ ("Net Income" :> Num(7))>>],
             [kind |-> "map", map |-> ("Europe" :> Num(276))]) }

AppCalls ==
    { [fn |-> "app", company1 |-> c1, company2 |-> c2,
       env |-> [file |-> f, info |-> i, dow |-> u.dow, nasdaq |-> u.nasdaq,
                sp500 |-> u.sp500],
       p1 |-> a, p2 |-> b] :
        c1 \in AppNames, c2 \in AppNames, f \in AppFiles, i \in AppInfoTables,
        u \in AppUniverses, a \in AppAnswers, b \in AppAnswers }

(***************************************************************************)
(* The state machine: a call is drawn, then the called function runs.      *)
(***************************************************************************)
Calls == AnalyzeCalls \cup FindTickerCalls \cup {c \in AppCalls : c.company1 # c.company2}

Init ==
    /\ pc = "called"
    /\ call \in Calls
    /\ ret = [kind |-> "pending"]
    /\ io = <<>>
    /\ report = <<>>
    /\ app = AppIdle

AnalyzeMerger ==
    /\ pc = "called"
    /\ call.fn = "analyze_merger_eumr_compliance"
    /\ ret' = analyze_merger_eumr_compliance(call.company1_ticker,
                                             call.company2_ticker,
                                             call.p1, call.p2)
    /\ io' = analyze_calls(call.company1_ticker, call.company2_ticker,
                           call.p1, call.p2)
    /\ pc' = "done"
    /\ UNCHANGED <<call, report, app>>

\* the function's result and its external calls
Returns(result) == ret' = result.ret /\ io' = result.io

FindTicker ==
    /\ pc = "called"
    /\ call.fn = "find_ticker"
    /\ Returns(find_ticker(call.company_name, call.env))
    /\ pc' = "done"
    /\ UNCHANGED <<call, report, app>>

GenerateReport ==
    /\ pc = "done"
    /\ call.fn = "analyze_merger_eumr_compliance"
    /\ ret.kind = "ok"
    /\ report' = generate_merger_report(ret.value)
    /\ pc' = "reported"
    /\ UNCHANGED <<call, ret, io, app>>

\* st.warning(...) unless ticker and full_name
Warning(company, ticker, full_name) ==
    IF Truthy(ticker) /\ TruthyName(full_name) THEN <<>>
    ELSE << <<"warning", "Could not find ticker information for ", company>> >>

FirstInfo(info) ==
    app' = [app EXCEPT !.ticker1 = info[1], !.full_name1 = info[2]]

SecondInfo(info) ==
    app' = [app EXCEPT
              !.ticker2 = info[1], !.full_name2 = info[2],
              !.shown = << <<"header", "Company Information">> >>
                          \o Warning(call.company1, app.ticker1, app.full_name1)
                          \o Warning(call.company2, info[1], info[2])]

\* ticker1, full_name1 = get_company_info(company1)
AppResolveFirst ==
    /\ pc = "called"
    /\ call.fn = "app"
    /\ FirstInfo(get_company_info(call.company1, call.env))
    /\ io' = io \o find_ticker(call.company1, call.env).io
    /\ pc' = "resolved1"
    /\ UNCHANGED <<call, ret, report>>

\* ticker2, full_name2 = get_company_info(company2), then the two company
\* information columns
AppResolveSecond ==
    /\ pc = "resolved1"
    /\ SecondInfo(get_company_info(call.company2, call.env))
    /\ io' = io \o find_ticker(call.company2, call.env).io
    /\ pc' = "resolved2"
    /\ UNCHANGED <<call, ret, report>>

\* analysis = analyze_merger_eumr_compliance(ticker1, ticker2); its
\* ValueError is not caught and ends the run
AppAnalyze ==
    /\ pc = "resolved2"
    /\ LET p1 == ProviderFor(app.ticker1, call.p1)
           p2 == ProviderFor(app.ticker2, call.p2)
       IN /\ ret' = analyze_merger_eumr_compliance(Shown(app.ticker1),
                                                   Shown(app.ticker2), p1, p2)
          /\ io' = io \o analyze_calls(Shown(app.ticker1), Shown(app.ticker2),
                                       p1, p2)
    /\ app' = [app EXCEPT !.evaluated = TRUE,
                           !.exception = IF ret'.kind = "raise" THEN ret' ELSE @]
    /\ pc' = IF ret'.kind = "raise" THEN "crashed" ELSE "analyzed"
    /\ UNCHANGED <<call, report>>

\* report = generate_merger_report(analysis)
AppReport ==
    /\ pc = "analyzed"
    /\ report' = generate_merger_report(ret.value)
    /\ pc' = "app_reported"
    /\ UNCHANGED <<call, ret, io, app>>

\* if ticker1 and ticker2: the market capitalisation, the EUMR analysis, the
\* products of the two companies (a company without product pages is an
\* uncaught KeyError), the comparisons and the download; else: st.error(...).
\* The scraping and language-model services catch their own failures.
AppCheckTickers ==
    /\ pc = "app_reported"
    /\ LET unlisted ==
             SelectSeq(<<call.company1, call.company2>>,
                       LAMBDA company : company \notin COMPANY_URLS)
       IN IF Truthy(app.ticker1) /\ Truthy(app.ticker2)
          THEN IF unlisted # <<>>
               THEN /\ app' = [app EXCEPT
                                 !.shown = @ \o << <<"header", "Combined Market Capitalization">>,
                                                  <<"header", "EUMR Compliance Analysis">> >>,
                                 !.exception = Raise("KeyError", unlisted[1])]
                    /\ pc' = "crashed"
               ELSE /\ app' = [app EXCEPT
                                 !.shown = @ \o << <<"header", "Combined Market Capitalization">>,
                                                  <<"header", "EUMR Compliance Analysis">>,
                                                  <<"header", "Product Portfolio Comparison">>,
                                                  <<"header", "Innovation and Technical Capabilities Analysis">> >>]
                    /\ pc' = "finished"
          ELSE /\ app' = [app EXCEPT
                            !.shown = @ \o << <<"error",
                              "Could not proceed with analysis due to missing ticker information.">> >>]
               /\ pc' = "finished"
    /\ UNCHANGED <<call, ret, io, report>>

Next ==
    \/ AnalyzeMerger
    \/ FindTicker
    \/ GenerateReport
    \/ AppResolveFirst
    \/ AppResolveSecond
    \/ AppAnalyze
    \/ AppReport
    \/ AppCheckTickers

Spec == Init /\ [][Next]_vars

(***************************************************************************)
(* Properties of the merger threshold evaluator.                           *)
(***************************************************************************)
Analyzed == pc = "done" /\ call.fn = "analyze_merger_eumr_compliance"

Returned == Analyzed /\ ret.kind = "ok"

\* the amount in EUR, usd / 1.1 as a float, is above the threshold (in
\* millions)
ExceedsInEUR(usd, threshold) == FGt(FDiv(usd, Float(11, 10)), Num(threshold))

\* eu == 0.30 * worldwide as floats (NaN for a NaN worldwide revenue)
IsThirtyPercent(eu, worldwide) ==
    IF IsNaN(worldwide) THEN IsNaN(eu)
    ELSE ~IsNaN(eu) /\ FEq(eu, FMul(Float(3, 10), worldwide))

\* the breakdown the provider supplied: absent when the fetch failed or
\* answered None
NoBreakdown(p) == p.geo.kind \in {"raise", "None"}

HasPreferredRegion(p) ==
    p.geo.kind = "map" /\ DOMAIN p.geo.map \cap {"Europe", "EU", "EMEA"} # {}

NoPreferredRegion(p) ==
    /\ p.geo.kind = "map"
    /\ DOMAIN p.geo.map # {}
    /\ DOMAIN p.geo.map \cap {"Europe", "EU", "EMEA"} = {}

PreferredValue(map) ==
    IF "Europe" \in DOMAIN map THEN map["Europe"]
    ELSE IF "EU" \in DOMAIN map THEN map["EU"]
    ELSE map["EMEA"]

\* C1: every returned analysis has
\* notification_required = (primary_threshold_met or alternative_threshold_met).
C1_NotificationIsEitherRegime ==
    Returned =>
      LET e == ret.value.eumr_analysis
      IN e.notification_required
           = (e.primary_threshold_met \/ e.alternative_threshold_met)

\* C1 witness: an analysis where only the alternative regime is met and
\* notification is required.
C1_Witness ==
    /\ Returned
    /\ ret.value.eumr_analysis.alternative_threshold_met
    /\ ~ret.value.eumr_analysis.primary_threshold_met
    /\ ret.value.eumr_analysis.notification_required

\* C2: the primary flag is true iff combined worldwide revenue / 1.1 > 5000M
\* and each company's EU revenue / 1.1 > 250M.
C2_PrimaryThreshold ==
    Returned =>
      LET a == ret.value
      IN a.eumr_analysis.primary_threshold_met
           = ( /\ ExceedsInEUR(FAdd(a.company1.worldwide_revenue,
                                    a.company2.worldwide_revenue),
                               PRIMARY_WORLDWIDE)
               /\ ExceedsInEUR(a.company1.eu_revenue, PRIMARY_EU)
               /\ ExceedsInEUR(a.company2.eu_revenue, PRIMARY_EU) )

\* C2 witness: worldwide revenue and company 1 pass, company 2's EU revenue
\* is exactly at the threshold (275 / 1.1 = 250), and the flag is false.
C2_Witness ==
    /\ Returned
    /\ ExceedsInEUR(ret.value.combined_metrics.worldwide_revenue_usd,
                    PRIMARY_WORLDWIDE)
    /\ ExceedsInEUR(ret.value.company1.eu_revenue, PRIMARY_EU)
    /\ ret.value.company2.eu_revenue = Num(275)
    /\ ~ret.value.eumr_analysis.primary_threshold_met

\* C3: the alternative flag is true iff combined worldwide revenue / 1.1 >
\* 2500M and each company's EU revenue / 1.1 > 100M; and the primary flag
\* implies the alternative flag.
C3_AlternativeThreshold ==
    Returned =>
      LET a == ret.value
      IN /\ a.eumr_analysis.alternative_threshold_met
              = ( /\ ExceedsInEUR(FAdd(a.company1.worldwide_revenue,
                                       a.company2.worldwide_revenue),
                                  ALTERNATIVE_WORLDWIDE)
                  /\ ExceedsInEUR(a.company1.eu_revenue, ALTERNATIVE_EU)
                  /\ ExceedsInEUR(a.company2.eu_revenue, ALTERNATIVE_EU) )
         /\ a.eumr_analysis.primary_threshold_met
              => a.eumr_analysis.alternative_threshold_met

\* C3 witness: the alternative regime is met while the primary one is not,
\* with company 2 between the two EU thresholds.
C3_Witness ==
    /\ Returned
    /\ ret.value.eumr_analysis.alternative_threshold_met
    /\ ~ret.value.eumr_analysis.primary_threshold_met
    /\ ExceedsInEUR(ret.value.company2.eu_revenue, ALTERNATIVE_EU)
    /\ ~ExceedsInEUR(ret.value.company2.eu_revenue, PRIMARY_EU)

\* C4: with no geographic breakdown for a company, its eu_revenue is 30% of
\* its worldwide revenue and its estimated flag is true.
C4_NoBreakdownEstimate ==
    Returned =>
      /\ NoBreakdown(call.p1) =>
           /\ IsThirtyPercent(ret.value.company1.eu_revenue,
                              ret.value.company1.worldwide_revenue)
           /\ ret.value.company1.eu_revenue_notes.eu_revenue_estimated
      /\ NoBreakdown(call.p2) =>
           /\ IsThirtyPercent(ret.value.company2.eu_revenue,
                              ret.value.company2.worldwide_revenue)
           /\ ret.value.company2.eu_revenue_notes.eu_revenue_estimated

\* C4 witness: company 1 has no breakdown and a worldwide revenue of 3000M,
\* so its EU revenue is 900M, flagged estimated.
C4_Witness ==
    /\ Returned
    /\ NoBreakdown(call.p1)
    /\ ret.value.company1.worldwide_revenue = Num(3000)
    /\ FEq(ret.value.company1.eu_revenue, Num(900))
    /\ ret.value.company1.eu_revenue_notes.eu_revenue_estimated

\* C5: with a breakdown holding one of Europe, EU, EMEA, eu_revenue is the
\* value under the first of them in that order, and estimated is false.
C5_PreferredRegion ==
    Returned =>
      /\ HasPreferredRegion(call.p1) =>
           /\ ret.value.company1.eu_revenue = PreferredValue(call.p1.geo.map)
           /\ ~ret.value.company1.eu_revenue_notes.eu_revenue_estimated
      /\ HasPreferredRegion(call.p2) =>
           /\ ret.value.company2.eu_revenue = PreferredValue(call.p2.geo.map)
           /\ ~ret.value.company2.eu_revenue_notes.eu_revenue_estimated

\* C5 witness: a breakdown with EU and EMEA and no Europe uses EU.
C5_Witness ==
    /\ Returned
    /\ call.p2.geo.kind = "map"
    /\ DOMAIN call.p2.geo.map \cap {"Europe", "EU", "EMEA"} = {"EU", "EMEA"}
    /\ ret.value.company2.eu_revenue = call.p2.geo.map["EU"]
    /\ ~ret.value.company2.eu_revenue_notes.eu_revenue_estimated

\* C6: with a non-empty breakdown holding none of Europe, EU, EMEA,
\* eu_revenue is 30% of worldwide revenue and estimated is true.
C6_NonMatchingBreakdownEstimate ==
    Returned =>
      /\ NoPreferredRegion(call.p1) =>
           /\ IsThirtyPercent(ret.value.company1.eu_revenue,
                              ret.value.company1.worldwide_revenue)
           /\ ret.value.company1.eu_revenue_notes.eu_revenue_estimated
      /\ NoPreferredRegion(call.p2) =>
           /\ IsThirtyPercent(ret.value.company2.eu_revenue,
                              ret.value.company2.worldwide_revenue)
           /\ ret.value.company2.eu_revenue_notes.eu_revenue_estimated

\* the statement the provider answered is empty
EmptyStatement(p) == p.financials.kind = "ok" /\ FrameEmpty(p.financials.frame)

\* C7: an empty annual statement for either ticker makes the evaluation
\* fail with an error; nothing is returned.
C7_EmptyStatementFails ==
    (Analyzed /\ (EmptyStatement(call.p1) \/ EmptyStatement(call.p2))) =>
      /\ ret.kind = "raise"
      /\ ret.exc = "ValueError"
      /\ "value" \notin DOMAIN ret

\* C7 witness: the first statement is fine, the second is empty, and the
\* evaluation has raised.
C7_Witness ==
    /\ Analyzed
    /\ ~EmptyStatement(call.p1) /\ call.p1.financials.kind = "ok"
    /\ EmptyStatement(call.p2)
    /\ ret.kind = "raise"

\* the latest column's total revenue is missing, NaN or negative
BadRevenue(p) ==
    /\ p.financials.kind = "ok"
    /\ ~FrameEmpty(p.financials.frame)
    /\ \/ "Total Revenue" \notin DOMAIN p.financials.frame[1]
       \/ IsNaN(p.financials.frame[1]["Total Revenue"])
       \/ p.financials.frame[1]["Total Revenue"].neg

\* C8: a negative, non-numeric or missing total revenue for either ticker
\* makes the evaluation fail with an error; no analysis is returned.
C8_BadRevenueFails ==
    (Analyzed /\ (BadRevenue(call.p1) \/ BadRevenue(call.p2))) =>
      ret.kind = "raise"

(***************************************************************************)
(* Properties of the ticker resolver.                                      *)
(***************************************************************************)
Resolved == pc = "done" /\ call.fn = "find_ticker"

DirectoryLoaded ==
    call.env.file.kind = "ok" /\ call.env.file.data.kind = "object"

\* the categories of the directory that list the case-folded, trimmed name
CategoriesListing(name) ==
    { i \in 1..Len(call.env.file.data.categories) :
        strip(lower(name)) \in DOMAIN call.env.file.data.categories[i] }

DirectoryHit == DirectoryLoaded /\ CategoriesListing(call.company_name) # {}

\* the ticker the directory configures for the name: the entry of the last
\* category that lists it
DirectoryTicker ==
    LET listing == CategoriesListing(call.company_name)
        last == CHOOSE i \in listing : \A j \in listing : j <= i
    IN call.env.file.data.categories[last][strip(lower(call.company_name))]

UniverseCalls == { <<"tickers_dow">>, <<"tickers_nasdaq">>, <<"tickers_sp500">> }

UniverseScanned == \E i \in 1..Len(io) : io[i] \in UniverseCalls

UniverseFailed ==
    \/ call.env.dow.kind = "raise"
    \/ call.env.nasdaq.kind = "raise"
    \/ call.env.sp500.kind = "raise"

IsErrorSentinel(value) == Len(value) = 1 /\ value[1][1] = "Error"

\* C9 as stated: on a directory hit find_ticker returns exactly one
\* candidate whose ticker is the directory's value, and the universe is not
\* scanned.
C9_FastPathReturnsDirectoryTicker ==
    (Resolved /\ DirectoryHit) =>
      /\ ret.kind = "ok"
      /\ Len(ret.value) = 1
      /\ ret.value[1][1] = DirectoryTicker
      /\ ~UniverseScanned

\* C9 amended: on a directory hit find_ticker returns exactly one candidate
\* and the universe is not scanned; the candidate's ticker is the
\* directory's value when the provider's name fetch succeeds, and the
\* "Error" sentinel when that fetch fails.
C9_FastPathSingleCandidate ==
    (Resolved /\ DirectoryHit) =>
      /\ ret.kind = "ok"
      /\ Len(ret.value) = 1
      /\ ret.value[1][1] =
           (IF call.env.info[DirectoryTicker].kind = "ok" THEN DirectoryTicker
            ELSE "Error")
      /\ io = << <<"open", "companies_data.json">>, <<"info", DirectoryTicker>> >>
      /\ ~UniverseScanned

\* C9 witness: " Acme " hits the key "acme", listed by two categories; the
\* later one's ticker comes back, with the provider's long name.
C9_Witness ==
    /\ Resolved
    /\ call.company_name = Text(<<" ", "A", "c", "m", "e", " ">>)
    /\ DirectoryHit
    /\ Cardinality(CategoriesListing(call.company_name)) = 2
    /\ ret.value = << <<"ZED", LongNames["ZED"]>> >>

\* a failure of the whole resolution, as opposed to one candidate's fetch
\* failing inside the scan
TotalFailure ==
    \/ ~DirectoryLoaded
    \/ DirectoryHit /\ call.env.info[DirectoryTicker].kind = "raise"
    \/ DirectoryLoaded /\ ~DirectoryHit /\ UniverseFailed

\* C10: every total failure of find_ticker is returned as the single
\* element ("Error", message): never an empty sequence, never raised.
C10_TotalFailureIsSentinel ==
    (Resolved /\ TotalFailure) =>
      /\ ret.kind = "ok"
      /\ IsErrorSentinel(ret.value)

\* C10, the cases other than the ticker universe: a directory that cannot be
\* loaded and a failed name fetch on the fast path are returned as the
\* single element ("Error", message); a failed retrieval of the universe is
\* returned as the empty sequence.
C10_FailuresOutsideUniverse ==
    Resolved =>
      /\ ret.kind = "ok"
      /\ ~DirectoryLoaded => IsErrorSentinel(ret.value)
      /\ (DirectoryHit /\ call.env.info[DirectoryTicker].kind = "raise")
           => /\ IsErrorSentinel(ret.value)
              /\ ret.value[1][2] = call.env.info[DirectoryTicker].msg
      /\ (DirectoryLoaded /\ ~DirectoryHit /\ UniverseFailed)
           => ret.value = <<>>

\* the fallback scan ran: the directory was loaded and missed, and the three
\* index lists were retrieved
Scanned == Resolved /\ DirectoryLoaded /\ ~DirectoryHit /\ ~UniverseFailed

\* Dow, then Nasdaq, then S&P 500
ConcatenatedUniverse ==
    call.env.dow.list \o call.env.nasdaq.list \o call.env.sp500.list

\* the input names with their legal-entity suffixes stripped, lower-cased
CleanedLower ==
    (Text(<<"a", "c", "m", "e">>) :> Text(<<"a", "c", "m", "e">>))
      @@ (Text(<<" ", "A", "c", "m", "e", " ">>) :> Text(<<"a", "c", "m", "e">>))
      @@ (Text(<<"A", "c", "m", "e", " ", "I", "n", "c">>) :> Text(<<"a", "c", "m", "e">>))
      @@ (Text(<<"Z", "e", "d", " ", "C", "o", ".">>) :> Text(<<"z", "e", "d", ".">>))
      @@ (Text(<<"N", "o", "p", "e">>) :> Text(<<"n", "o", "p", "e">>))

\* the provider's canonical name for a ticker, lower-cased ('' without one)
CanonicalLower(t) ==
    IF "longName" \in DOMAIN call.env.info[t].dict
    THEN lower(call.env.info[t].dict.longName) ELSE <<>>

\* one is contained in the other
NamesMatch(a, b) == Contains(a, b) \/ Contains(b, a)

\* the fetch for the ticker succeeded and its name matches the cleaned name
IsCandidate(t) ==
    /\ call.env.info[t].kind = "ok"
    /\ NamesMatch(CleanedLower[call.company_name], CanonicalLower(t))

CandidateOf(t) ==
    <<t, IF "longName" \in DOMAIN call.env.info[t].dict
         THEN call.env.info[t].dict.longName ELSE <<>> >>

\* C11: the fallback scan returns exactly the candidates whose fetch
\* succeeded and whose name matches, in the order of the concatenated
\* universe with duplicates kept (empty when none), and a failed fetch never
\* stops it: every ticker of the universe is fetched.
C11_ScanSkipsFailures ==
    Scanned =>
      LET kept == SelectSeq(ConcatenatedUniverse, IsCandidate)
      IN /\ ret.kind = "ok"
         /\ ret.value = [j \in 1..Len(kept) |-> CandidateOf(kept[j])]
         /\ SubSeq(io, 5, Len(io))
              = [j \in 1..Len(ConcatenatedUniverse) |->
                   <<"info", ConcatenatedUniverse[j]>>]

\* C11 witness: the first candidate's fetch fails, the second, from the next
\* index list, matches and is returned.
C11_Witness ==
    /\ Scanned
    /\ call.env.dow.list = <<"ZED">> /\ call.env.nasdaq.list = <<"ACM">>
    /\ call.env.info["ZED"].kind = "raise"
    /\ call.company_name = Text(<<"A", "c", "m", "e", " ", "I", "n", "c">>)
    /\ ret.value = << <<"ACM", LongNames["ACM"]>> >>

(***************************************************************************)
(* Properties of the report generator.                                     *)
(***************************************************************************)
Reported == pc = "reported"

\* the lines of the report that begin with the given text
LinesStarting(text) ==
    { i \in 1..Len(report) : Len(report[i]) > 0 /\ report[i][1] = text }

\* the line after the given text reads `word`, and there is one such line
LineReads(text, word) ==
    /\ Cardinality(LinesStarting(text)) = 1
    /\ \A i \in LinesStarting(text) : report[i] = <<text, word>>

\* the block of a company: from its heading to the next empty line
BlockOf(label) ==
    LET start == CHOOSE i \in LinesStarting(label) : TRUE
        end == CHOOSE j \in (start + 1)..Len(report) :
                 /\ report[j] = <<>>
                 /\ \A k \in (start + 1)..(j - 1) : report[k] # <<>>
    IN SubSeq(report, start, end - 1)

Annotated(label) ==
    \E i \in 1..Len(BlockOf(label)) :
       BlockOf(label)[i] = <<" (EU Revenue Estimated)">>

\* C13: the report agrees with the analysis: a company's block carries
\* "(EU Revenue Estimated)" iff its estimated flag is true, each threshold
\* line reads Met iff its flag is true and Not Met otherwise, the
\* notification line reads YES iff notification_required and NO otherwise,
\* and the five notes follow "Important Notes:" one per line, in order.
C13_ReportAgreesWithAnalysis ==
    Reported =>
      LET a == ret.value
      IN /\ Cardinality(LinesStarting("Company 1: ")) = 1
         /\ Cardinality(LinesStarting("Company 2: ")) = 1
         /\ Annotated("Company 1: ")
              = a.company1.eu_revenue_notes.eu_revenue_estimated
         /\ Annotated("Company 2: ")
              = a.company2.eu_revenue_notes.eu_revenue_estimated
         /\ LineReads("Primary Threshold (€5B worldwide, €250M EU each): ",
                      IF a.eumr_analysis.primary_threshold_met
                      THEN "Met" ELSE "Not Met")
         /\ LineReads("Alternative Threshold (€2.5B worldwide, €100M EU each): ",
                      IF a.eumr_analysis.alternative_threshold_met
                      THEN "Met" ELSE "Not Met")
         /\ LineReads("EUMR Notification Required: ",
                      IF a.eumr_analysis.notification_required
                      THEN "YES" ELSE "NO")
         /\ Len(a.eumr_analysis.notes) = 5
         /\ \E k \in 1..Len(report) :
              /\ report[k] = <<"Important Notes:">>
              /\ \A j \in 1..5 :
                   report[k + j] = <<"- ", a.eumr_analysis.notes[j]>>

\* C13 witness: a report where company 1 is annotated and company 2 is not,
\* the primary line reads Not Met, the alternative line Met and the
\* notification line YES.
C13_Witness ==
    /\ Reported
    /\ Annotated("Company 1: ") /\ ~Annotated("Company 2: ")
    /\ LineReads("Primary Threshold (€5B worldwide, €250M EU each): ", "Not Met")
    /\ LineReads("Alternative Threshold (€2.5B worldwide, €100M EU each): ", "Met")
    /\ LineReads("EUMR Notification Required: ", "YES")

(***************************************************************************)
(* Properties of the estimated flag and of the geographic fetch.           *)
(***************************************************************************)
\* the breakdown the estimator received is None or has no row: its else
\* branch, the 30% policy, produced eu_revenue
EstimatePolicyUsed(p) ==
    NoBreakdown(p) \/ (p.geo.kind = "map" /\ DOMAIN p.geo.map = {})

\* C14: a company's estimated flag is true iff its eu_revenue was produced
\* by the 30% policy, for every shape of breakdown.
C14_EstimatedIffPolicyUsed ==
    Returned =>
      /\ ret.value.company1.eu_revenue_notes.eu_revenue_estimated
           = EstimatePolicyUsed(call.p1)
      /\ ret.value.company2.eu_revenue_notes.eu_revenue_estimated
           = EstimatePolicyUsed(call.p2)

FetchesSucceeded(p) ==
    /\ p.info.kind = "ok"
    /\ p.financials.kind = "ok"
    /\ ~FrameEmpty(p.financials.frame)

GeoFetchFailed(p) == p.geo.kind = "raise"

\* C15: a failed geographic fetch never aborts the evaluation: with both
\* profiles and statements fetched and non-empty an analysis is returned,
\* in which a company whose geographic fetch failed has the 30% estimate
\* and estimated = true; the evaluation aborts only when a profile or a
\* statement is unavailable.
C15_GeoFailureIsAbsentBreakdown ==
    Analyzed =>
      /\ (FetchesSucceeded(call.p1) /\ FetchesSucceeded(call.p2)) =>
           /\ ret.kind = "ok"
           /\ GeoFetchFailed(call.p1) =>
                /\ IsThirtyPercent(ret.value.company1.eu_revenue,
                                   ret.value.company1.worldwide_revenue)
                /\ ret.value.company1.eu_revenue_notes.eu_revenue_estimated
           /\ GeoFetchFailed(call.p2) =>
                /\ IsThirtyPercent(ret.value.company2.eu_revenue,
                                   ret.value.company2.worldwide_revenue)
                /\ ret.value.company2.eu_revenue_notes.eu_revenue_estimated
      /\ ret.kind = "raise" =>
           ~(FetchesSucceeded(call.p1) /\ FetchesSucceeded(call.p2))

\* C15 witness: company 2's geographic fetch failed, company 1 has a
\* breakdown, and the analysis came back with company 2 estimated at 30% of
\* 3000M.
C15_Witness ==
    /\ Returned
    /\ call.p1.geo.kind = "map"
    /\ GeoFetchFailed(call.p2)
    /\ <<"get_geographical_revenue", "AAPL">> \in {io[i] : i \in 1..Len(io)}
    /\ ret.value.company2.worldwide_revenue = Num(3000)
    /\ FEq(ret.value.company2.eu_revenue, Num(900))
    /\ ret.value.company2.eu_revenue_notes.eu_revenue_estimated

\* C16: every candidate the fallback scan returns has a non-empty canonical
\* name that contains the cleaned input name or is contained in it.
C16_CandidatesAreNamed ==
    Scanned =>
      \A i \in 1..Len(ret.value) :
         /\ ret.value[i][2] # <<>>
         /\ NamesMatch(CleanedLower[call.company_name], lower(ret.value[i][2]))

(***************************************************************************)
(* Properties of the application flow.                                     *)
(***************************************************************************)
InApp == call.fn = "app"

AppEnded == InApp /\ pc \in {"crashed", "finished"}

BothResolved == Truthy(app.ticker1) /\ Truthy(app.ticker2)

MissingTickerMessage ==
    <<"error", "Could not proceed with analysis due to missing ticker information.">>

\* C17: in the application flow the evaluation is invoked only with two
\* resolved tickers, and when a resolution gave nothing or the "Error"
\* sentinel the flow ends with the missing-ticker message and without
\* having run the evaluation.
C17_EvaluationOnlyAfterResolution ==
    InApp =>
      /\ app.evaluated => BothResolved
      /\ (AppEnded /\ ~BothResolved) =>
           /\ ~app.evaluated
           /\ \E i \in 1..Len(app.shown) : app.shown[i] = MissingTickerMessage

====
